---------------------------- MODULE Spec2Model ----------------------------
(***************************************************************************)
(* Room relay and page synchronisation of the collaborative whiteboard     *)
(* server.  Three server variants of the repository are modelled:          *)
(*                                                                         *)
(*   Spec         the page-keeping server (raw participant count and a     *)
(*                page list per room), src/unnamed/part_014                *)
(*   SpecUsers    the durable-user-id server (a set of user ids per room), *)
(*                src/unnamed/part_015, second io.on('connection')         *)
(*   SpecActivity the userActivity server that registers two 'disconnect'  *)
(*                handlers, src/server/server.js lines 230-524             *)
(*                                                                         *)
(* and, of the page-keeping server, the specifications of its parts:       *)
(*                                                                         *)
(*   SpecHistory  Spec with the history of the removed page ids            *)
(*   SpecDraw     the draw relay (joinRoom, addPage, removePage, draw)     *)
(*   SpecChat     the chat relay (joinRoom, chatMessage)                   *)
(*   SpecAI       the AI assistant path (processWithAI and the client's    *)
(*                processAISubmission, src/client2/src/HandGesture.js)     *)
(*   SpecClean    the clean-up of the AI response on texts with markup     *)
(*   SpecInFlight the AI path with connections that close                  *)
(*   SpecRelay    the relay handlers draw, endStroke, clearCanvas and      *)
(*                chatMessage                                              *)
(*   SpecInbound  all handlers on whole payloads, missing ones included    *)
(*   SpecPages    the page handlers driven by the Whiteboard clients of    *)
(*                src/client2/src/Room.js, with events in flight           *)
(*   SpecOrder    the draw relay between Whiteboard clients                *)
(*   SpecConverge the page lists of the clients with the events in flight  *)
(*                both ways                                                *)
(*   SpecStrokes  the clients' strokes and the snapshots the server stores *)
(*   SpecIndex    drawing while pages are added and removed                *)
(*   SpecIsolation events of sessions that have not joined the room        *)
(*   SpecOutcome  the outcomes of the processWithAI requests               *)
(*   SpecReconnect a Room client whose connection drops and reconnects     *)
(*                                                                         *)
(* SpecEarlier is the AI path of the earlier server, src/unnamed/part_013. *)
(*                                                                         *)
(* One action is one run-to-completion execution of one socket.io event    *)
(* handler (the handlers of these files never await before they touch the  *)
(* registry).  A handler whose body does not use its socket (addPage,      *)
(* removePage, updatePageState: they read the payload and emit through io) *)
(* has no socket parameter; it runs when some connection is open.          *)
(*                                                                         *)
(* socket.io itself is not part of the repository.  Its two relevant       *)
(* behaviours are modelled by the variables sids and conn:                 *)
(*   - io.to(room).emit reaches the connected sockets that socket.join'ed  *)
(*     the room; this membership (sids) is independent of the rooms Map.   *)
(*   - on a close socket.io emits 'disconnecting', then leaves every room  *)
(*     of the socket, and only then emits 'disconnect'.  Inside a          *)
(*     'disconnect' handler socket.rooms is therefore the empty Set.       *)
(* A closed connection is gone for good; its name in the model is free for *)
(* a later connection.                                                     *)
(***************************************************************************)
EXTENDS Integers, Sequences, FiniteSets, TLC

(***************************************************************************)
(* Bounds of the model.                                                    *)
(***************************************************************************)
MaxSockets == 2
MaxClock == 2
MaxPages == 2
MaxCount == 2

Sockets == 1..MaxSockets
RoomIds == {"r1"}
RoomIdInputs == RoomIds \cup {""}
\* the servers without page lists are checked with two rooms
WideRoomIdInputs == {"r1", "r2", ""}
ImageData == {"", "a"}
PageIdInputs == 0..MaxClock

(***************************************************************************)
(* JavaScript values of room.participants that are not counts: the field   *)
(* is missing (undefined) on a room object built by addPage, and           *)
(* undefined++ yields NaN.                                                 *)
(***************************************************************************)
Undefined == -1
NaN == -2

VARIABLES
  rooms,      \* part_014: the rooms Map, roomId -> [participants, pages]
  sids,       \* socket.io adapter: socket -> rooms it has joined
  conn,       \* socket.io: "open" for a live connection, else "idle"
  now,        \* Date.now()
  out,        \* events emitted by the handler that ran last
  removed,    \* history (SpecHistory): per room, the page ids removed so far
  userSockets, \* part_015: the userSockets Map, socket.id -> userId
  pending,    \* part_014: the generateContent calls awaited by processWithAI
  lastSubmissionTime, \* HandGesture.js: lastSubmissionTime.current per client
  clients     \* Room.js: per connection, the Whiteboard's pages and the
              \* events in flight to and from the server

\* the variables of the AI assistant path
aiVars == <<pending, lastSubmissionTime>>

vars == <<rooms, sids, conn, now, out, removed, userSockets, pending,
          lastSubmissionTime, clients>>

NoPages == <<>>

\* the client side of a connection that is not open: no Whiteboard, nothing
\* in flight
NoClient ==
  [mounted |-> FALSE, pages |-> <<>>, emitted |-> 0, up |-> <<>>, down |-> <<>>,
   got |-> <<>>]

Msg(to, ev, n, pages) == [to |-> to, ev |-> ev, n |-> n, pages |-> pages]

\* io.sockets: the live connections, each with the handlers registered
Connected == {s \in Sockets : conn[s] = "open"}

\* io.to(roomId): the connected sockets that have joined roomId
MembersOf(cn, sd, roomId) == {s \in Sockets : cn[s] = "open" /\ roomId \in sd[s]}

Members(roomId) == MembersOf(conn, sids, roomId)

\* io.to(roomId).emit(ev, payload)
EmitRoom(roomId, ev, n, pages) == {Msg(s, ev, n, pages) : s \in Members(roomId)}

validateRoomId(roomId) == roomId \in STRING /\ Len(roomId) > 0

\* room.participants++ on a JavaScript value
Increment(p) == IF p \in {Undefined, NaN} THEN NaN ELSE p + 1

\* room.participants-- on a JavaScript value
Decrement(p) == IF p \in {Undefined, NaN} THEN NaN ELSE p - 1

\* p <= 0 on a JavaScript value (false for NaN)
LeqZero(p) == p \notin {Undefined, NaN} /\ p <= 0

\* pages.findIndex(p => p.id === pageId), 0 when there is none
FindIndex(pages, pageId) ==
  IF \E i \in 1..Len(pages) : pages[i].id = pageId
  THEN CHOOSE i \in 1..Len(pages) :
         /\ pages[i].id = pageId
         /\ \A j \in 1..(i - 1) : pages[j].id # pageId
  ELSE 0

\* pages.filter(p => p.id !== pageId)
RECURSIVE FilterPages(_, _)
FilterPages(pages, pageId) ==
  IF pages = <<>> THEN <<>>
  ELSE IF Head(pages).id = pageId
       THEN FilterPages(Tail(pages), pageId)
       ELSE <<Head(pages)>> \o FilterPages(Tail(pages), pageId)

PageIds(pages) == {pages[i].id : i \in 1..Len(pages)}

\* rooms.set(roomId, room)
SetRoom(rms, roomId, room) ==
  [r \in DOMAIN rms \cup {roomId} |-> IF r = roomId THEN room ELSE rms[r]]

\* rooms.delete(roomId)
DeleteRoom(rms, roomId) == [r \in DOMAIN rms \ {roomId} |-> rms[r]]

Init ==
  /\ rooms = <<>>
  /\ sids = [s \in Sockets |-> {}]
  /\ conn = [s \in Sockets |-> "idle"]
  /\ now = 1
  /\ out = {}
  /\ removed = [r \in RoomIds |-> {}]
  /\ userSockets = <<>>
  /\ pending = {}
  /\ lastSubmissionTime = [s \in Sockets |-> 0]
  /\ clients = [s \in Sockets |-> NoClient]

\* io.on('connection'): socket.io gives every connection a fresh id; the
\* model names the live connections 1..MaxSockets and a new connection takes
\* the lowest name that no live connection has
Connect(s) ==
  /\ conn[s] = "idle"
  /\ \A t \in Sockets : t < s => conn[t] # "idle"
  /\ conn' = [conn EXCEPT ![s] = "open"]
  /\ out' = {}
  /\ UNCHANGED <<rooms, sids, now, removed, userSockets, aiVars, clients>>

\* the server clock advances
Tick ==
  /\ now < MaxClock
  /\ now' = now + 1
  /\ UNCHANGED <<rooms, sids, conn, out, removed, userSockets, aiVars, clients>>

\* joinRoom with socket.join(roomId) ahead of the validateRoomId test
joinRoomJoinFirst(s, roomId) ==
  /\ conn[s] = "open"
  /\ IF ~validateRoomId(roomId)
     THEN /\ out' = {Msg(s, "error", Undefined, NoPages)}
          /\ sids' = [sids EXCEPT ![s] = @ \cup {roomId}]
          /\ UNCHANGED rooms
     ELSE LET room == IF roomId \in DOMAIN rooms
                      THEN rooms[roomId]
                      ELSE [participants |-> 0,
                            pages |-> <<[id |-> now, imageData |-> ""]>>]
              joined == [room EXCEPT !.participants = Increment(@)]
          IN /\ room.participants = NaN \/ room.participants < MaxCount
             /\ sids' = [sids EXCEPT ![s] = @ \cup {roomId}]
             /\ rooms' = SetRoom(rooms, roomId, joined)
             /\ out' = {Msg(s, "roomStatus", joined.participants, NoPages)}
  /\ UNCHANGED <<conn, now, removed, userSockets, aiVars>>

\* socket.on('joinRoom'): the handler
joinRoomHandler(s, roomId) ==
  /\ conn[s] = "open"
  /\ IF ~validateRoomId(roomId)
     THEN /\ out' = {Msg(s, "error", Undefined, NoPages)}
          /\ UNCHANGED <<rooms, sids>>
     ELSE LET room == IF roomId \in DOMAIN rooms
                      THEN rooms[roomId]
                      ELSE [participants |-> 0,
                            pages |-> <<[id |-> now, imageData |-> ""]>>]
              joined == [room EXCEPT !.participants = Increment(@)]
          IN /\ room.participants = NaN \/ room.participants < MaxCount
             /\ sids' = [sids EXCEPT ![s] = @ \cup {roomId}]
             /\ rooms' = SetRoom(rooms, roomId, joined)
             /\ out' = {Msg(s, "roomStatus", joined.participants, NoPages)}
  /\ UNCHANGED <<conn, now, removed, userSockets, aiVars>>

\* socket.on('joinRoom')
joinRoom(s, roomId) ==
  /\ joinRoomHandler(s, roomId)
  /\ UNCHANGED clients

\* addPage without "Update existing page BEFORE adding new one"
addPageNoSnapshot(roomId, pageId, imageData) ==
  /\ Connected # {}
  /\ IF ~validateRoomId(roomId)
     THEN /\ out' = {}
          /\ UNCHANGED rooms
     ELSE LET room == IF roomId \in DOMAIN rooms
                      THEN rooms[roomId]
                      ELSE [participants |-> Undefined, pages |-> <<>>]
              newPage == [id |-> now, imageData |-> ""]
              pages == Append(room.pages, newPage)
          IN /\ Len(room.pages) < MaxPages
             /\ rooms' = SetRoom(rooms, roomId, [room EXCEPT !.pages = pages])
             /\ out' = EmitRoom(roomId, "fullPageUpdate", Undefined, pages)
  /\ UNCHANGED <<sids, conn, now, removed, userSockets, aiVars>>

\* socket.on('addPage'): the handler
addPageHandler(roomId, pageId, imageData) ==
  /\ Connected # {}
  /\ IF ~validateRoomId(roomId)
     THEN /\ out' = {}
          /\ UNCHANGED rooms
     ELSE LET room == IF roomId \in DOMAIN rooms
                      THEN rooms[roomId]
                      ELSE [participants |-> Undefined, pages |-> <<>>]
              pageIndex == FindIndex(room.pages, pageId)
              updated == IF pageIndex > 0
                         THEN [room.pages EXCEPT ![pageIndex].imageData = imageData]
                         ELSE room.pages
              newPage == [id |-> now, imageData |-> ""]
              pages == Append(updated, newPage)
          IN /\ Len(room.pages) < MaxPages
             /\ rooms' = SetRoom(rooms, roomId, [room EXCEPT !.pages = pages])
             /\ out' = EmitRoom(roomId, "fullPageUpdate", Undefined, pages)
  /\ UNCHANGED <<sids, conn, now, removed, userSockets, aiVars>>

\* socket.on('addPage')
addPage(roomId, pageId, imageData) ==
  /\ addPageHandler(roomId, pageId, imageData)
  /\ UNCHANGED clients

\* socket.on('removePage')
removePageHandler(roomId, pageId) ==
  /\ Connected # {}
  /\ IF validateRoomId(roomId) /\ roomId \in DOMAIN rooms
     THEN LET room == rooms[roomId]
              pages == FilterPages(room.pages, pageId)
          IN /\ rooms' = SetRoom(rooms, roomId, [room EXCEPT !.pages = pages])
             /\ out' = EmitRoom(roomId, "fullPageUpdate", Undefined, pages)
     ELSE /\ out' = {}
          /\ UNCHANGED rooms
  /\ UNCHANGED <<sids, conn, now, userSockets, aiVars>>

removePage(roomId, pageId) ==
  /\ removePageHandler(roomId, pageId)
  /\ UNCHANGED <<removed, clients>>

\* removePage, with the ids it takes out of a room's list recorded in removed
removePageRecorded(roomId, pageId) ==
  /\ removePageHandler(roomId, pageId)
  /\ removed' = IF /\ validateRoomId(roomId)
                   /\ roomId \in DOMAIN rooms
                   /\ pageId \in PageIds(rooms[roomId].pages)
                THEN [removed EXCEPT ![roomId] = @ \cup {pageId}]
                ELSE removed
  /\ UNCHANGED clients

\* requestInitialState that answers through io.to(roomId) like addPage
requestInitialStateToRoom(s, roomId) ==
  /\ conn[s] = "open"
  /\ out' = IF validateRoomId(roomId)
            THEN EmitRoom(roomId, "initialState", Undefined,
                          IF roomId \in DOMAIN rooms THEN rooms[roomId].pages
                          ELSE <<>>)
            ELSE {}
  /\ UNCHANGED <<rooms, sids, conn, now, removed, userSockets, aiVars>>

\* socket.on('requestInitialState'): the handler
requestInitialStateHandler(s, roomId) ==
  /\ conn[s] = "open"
  /\ out' = IF validateRoomId(roomId)
            THEN {Msg(s, "initialState", Undefined,
                      IF roomId \in DOMAIN rooms THEN rooms[roomId].pages
                      ELSE <<>>)}
            ELSE {}
  /\ UNCHANGED <<rooms, sids, conn, now, removed, userSockets, aiVars>>

\* socket.on('requestInitialState')
requestInitialState(s, roomId) ==
  /\ requestInitialStateHandler(s, roomId)
  /\ UNCHANGED clients

\* updatePageState that broadcasts the page list like addPage and removePage
updatePageStateBroadcast(roomId, pageId, imageData) ==
  /\ Connected # {}
  /\ IF validateRoomId(roomId) /\ roomId \in DOMAIN rooms
        /\ FindIndex(rooms[roomId].pages, pageId) > 0
     THEN LET i == FindIndex(rooms[roomId].pages, pageId)
          IN /\ rooms' = [rooms EXCEPT ![roomId].pages[i].imageData = imageData]
             /\ out' = EmitRoom(roomId, "fullPageUpdate", Undefined,
                                rooms'[roomId].pages)
     ELSE /\ out' = {}
          /\ UNCHANGED rooms
  /\ UNCHANGED <<sids, conn, now, removed, userSockets, aiVars>>

\* socket.on('updatePageState'): the handler
updatePageStateHandler(roomId, pageId, imageData) ==
  /\ Connected # {}
  /\ out' = {}
  /\ IF validateRoomId(roomId) /\ roomId \in DOMAIN rooms
        /\ FindIndex(rooms[roomId].pages, pageId) > 0
     THEN LET i == FindIndex(rooms[roomId].pages, pageId)
          IN rooms' = [rooms EXCEPT ![roomId].pages[i].imageData = imageData]
     ELSE UNCHANGED rooms
  /\ UNCHANGED <<sids, conn, now, removed, userSockets, aiVars>>

\* socket.on('updatePageState')
updatePageState(roomId, pageId, imageData) ==
  /\ updatePageStateHandler(roomId, pageId, imageData)
  /\ UNCHANGED clients

\* socket.io Socket._onclose: the socket leaves all its rooms before the
\* 'disconnect' event is emitted
LeaveAll(sd, s) == [sd EXCEPT ![s] = {}]

\* the getter socket.rooms (without the socket's own id room)
SocketRooms(sd, s) == sd[s]

\* the body of the 'disconnect' handler for one roomId of socket.rooms
LeaveRoom(rms, roomId) ==
  IF roomId \in DOMAIN rms
  THEN LET room == [rms[roomId] EXCEPT !.participants = Decrement(@)]
       IN IF LeqZero(room.participants)
          THEN DeleteRoom(rms, roomId)
          ELSE SetRoom(rms, roomId, room)
  ELSE rms

\* Array.from(socket.rooms).forEach(...) of the 'disconnect' handler
RECURSIVE LeaveRooms(_, _)
LeaveRooms(rms, socketRooms) ==
  IF socketRooms = {} THEN rms
  ELSE LET roomId == CHOOSE r \in socketRooms : TRUE
       IN LeaveRooms(LeaveRoom(rms, roomId), socketRooms \ {roomId})

\* a connection closes: socket.io cleans the socket up, then runs
\* socket.on('disconnect')
disconnectHandler(s) ==
  /\ conn[s] = "open"
  /\ conn' = [conn EXCEPT ![s] = "idle"]
  /\ sids' = LeaveAll(sids, s)
  /\ rooms' = LeaveRooms(rooms, SocketRooms(sids', s))
  /\ out' = {}
  /\ UNCHANGED <<now, removed, userSockets, aiVars>>

disconnect(s) ==
  /\ disconnectHandler(s)
  /\ UNCHANGED clients

Next ==
  \/ \E s \in Sockets : Connect(s)
  \/ Tick
  \/ \E s \in Sockets, roomId \in RoomIdInputs : joinRoom(s, roomId)
  \/ \E roomId \in RoomIdInputs, pageId \in PageIdInputs,
        imageData \in ImageData : addPage(roomId, pageId, imageData)
  \/ \E roomId \in RoomIdInputs, pageId \in PageIdInputs :
        removePage(roomId, pageId)
  \/ \E s \in Sockets, roomId \in RoomIdInputs : requestInitialState(s, roomId)
  \/ \E roomId \in RoomIdInputs, pageId \in PageIdInputs,
        imageData \in ImageData : updatePageState(roomId, pageId, imageData)
  \/ \E s \in Sockets : disconnect(s)

Spec == Init /\ [][Next]_vars

\* the same server with the history variable removed kept
NextHistory ==
  \/ \E s \in Sockets : Connect(s)
  \/ Tick
  \/ \E s \in Sockets, roomId \in RoomIdInputs : joinRoom(s, roomId)
  \/ \E roomId \in RoomIdInputs, pageId \in PageIdInputs,
        imageData \in ImageData : addPage(roomId, pageId, imageData)
  \/ \E roomId \in RoomIdInputs, pageId \in PageIdInputs :
        removePageRecorded(roomId, pageId)
  \/ \E s \in Sockets, roomId \in RoomIdInputs : requestInitialState(s, roomId)
  \/ \E roomId \in RoomIdInputs, pageId \in PageIdInputs,
        imageData \in ImageData : updatePageState(roomId, pageId, imageData)
  \/ \E s \in Sockets : disconnect(s)

SpecHistory == Init /\ [][NextHistory]_vars

(***************************************************************************)
(* Properties of the page-keeping server (Spec).                           *)
(***************************************************************************)
PagesOf(rms, roomId) == IF roomId \in DOMAIN rms THEN rms[roomId].pages ELSE <<>>

\* C3: every room present in the registry has a page list of length >= 1
\* (so a removePage handled when one page remains leaves the list unchanged).
LastPageProtection == \A r \in DOMAIN rooms : Len(rooms[r].pages) >= 1

\* C5: no two pages of the same room have the same id.
PageIdsUnique ==
  \A r \in DOMAIN rooms :
    \A i, j \in 1..Len(rooms[r].pages) :
      i # j => rooms[r].pages[i].id # rooms[r].pages[j].id

\* C6: addPage is one registry step that stores the preceding page's
\* snapshot and appends one blank page, the fullPageUpdate it emits carries
\* the resulting list to the members of the room, and every initialState
\* reply carries the registry's current list, so a reply produced after the
\* addPage ends with the new page and holds the snapshot.
AddPageAtomic ==
  [][/\ \A roomId \in RoomIds, pageId \in PageIdInputs,
           imageData \in ImageData :
          addPage(roomId, pageId, imageData) =>
            LET before == PagesOf(rooms, roomId)
                after == PagesOf(rooms', roomId)
            IN /\ Len(after) = Len(before) + 1
               /\ after[Len(after)] = [id |-> now, imageData |-> ""]
               /\ \A i \in 1..Len(before) : after[i].id = before[i].id
               /\ pageId \in PageIds(before) =>
                    \E i \in 1..Len(before) :
                      /\ before[i].id = pageId
                      /\ after[i].imageData = imageData
               /\ \A i \in 1..Len(before) :
                    before[i].id # pageId => after[i] = before[i]
               /\ out' = {Msg(t, "fullPageUpdate", Undefined, after) :
                            t \in Members(roomId)}
     /\ \A s \in Sockets, roomId \in RoomIds :
          requestInitialState(s, roomId) =>
            out' = {Msg(s, "initialState", Undefined, PagesOf(rooms, roomId))}
    ]_vars

\* C6 witness: an addPage has stored a snapshot for the first page, appended
\* a blank page, and a member has been sent the resulting list.
AddPageDone ==
  \E r \in DOMAIN rooms :
    /\ Len(rooms[r].pages) = 2
    /\ rooms[r].pages[1].imageData = "a"
    /\ rooms[r].pages[2] = [id |-> now, imageData |-> ""]
    /\ \E m \in out : m.ev = "fullPageUpdate" /\ m.pages = rooms[r].pages

\* C7: updatePageState emits nothing; when the room has a page with the id,
\* one page with that id takes the supplied imageData and every other page,
\* the page order and the participant count stay; otherwise the registry
\* stays as it is.
UpdatePageStateSilentStore ==
  [][\A roomId \in RoomIdInputs, pageId \in PageIdInputs,
        imageData \in ImageData :
       updatePageState(roomId, pageId, imageData) =>
         /\ out' = {}
         /\ IF roomId \in DOMAIN rooms /\ pageId \in PageIds(rooms[roomId].pages)
            THEN LET before == rooms[roomId].pages
                     after == PagesOf(rooms', roomId)
                 IN /\ DOMAIN rooms' = DOMAIN rooms
                    /\ \A r \in DOMAIN rooms \ {roomId} : rooms'[r] = rooms[r]
                    /\ rooms'[roomId].participants = rooms[roomId].participants
                    /\ Len(after) = Len(before)
                    /\ \E i \in 1..Len(before) :
                         /\ before[i].id = pageId
                         /\ after[i] = [id |-> pageId, imageData |-> imageData]
                         /\ \A j \in 1..Len(before) : j # i => after[j] = before[j]
            ELSE rooms' = rooms
    ]_vars

\* C7 witness: a snapshot has been stored on the only page of a joined room
\* and nothing was emitted.
SnapshotStored ==
  \E r \in DOMAIN rooms :
    /\ Len(rooms[r].pages) = 1
    /\ rooms[r].pages[1].imageData = "a"
    /\ rooms[r].participants = 1
    /\ out = {}

\* C2: when the last session joined to a room disconnects, the room leaves
\* the registry; a joinRoom for a room without live sessions (absent, or
\* left behind with a count) yields count 1 and one page with empty
\* imageData.
RoomTeardown ==
  [][/\ \A s \in Sockets :
          disconnect(s) =>
            \A r \in sids[s] : Members(r) = {s} => r \notin DOMAIN rooms'
     /\ \A s \in Sockets, r \in RoomIds :
          (/\ joinRoom(s, r)
           /\ Members(r) = {}
           /\ r \in DOMAIN rooms => rooms[r].participants >= 1) =>
            /\ rooms'[r].participants = 1
            /\ Len(rooms'[r].pages) = 1
            /\ rooms'[r].pages[1].imageData = ""
    ]_vars

\* C4: addPage puts the new page last and keeps the pages before it in
\* place, removePage keeps the relative order of the pages that remain, and
\* an id that removePage took out of a room is not an id of its list again.
RECURSIVE IsSubSeq(_, _)
IsSubSeq(sub, seq) ==
  IF sub = <<>> THEN TRUE
  ELSE IF seq = <<>> THEN FALSE
  ELSE IF Head(sub) = Head(seq) THEN IsSubSeq(Tail(sub), Tail(seq))
  ELSE IsSubSeq(sub, Tail(seq))

IdsOf(pages) == [i \in 1..Len(pages) |-> pages[i].id]

PageOrderAppendOnly ==
  [][/\ \A roomId \in RoomIds, pageId \in PageIdInputs,
           imageData \in ImageData :
          addPage(roomId, pageId, imageData) =>
            IdsOf(PagesOf(rooms', roomId)) =
              Append(IdsOf(PagesOf(rooms, roomId)), now)
     /\ \A roomId \in RoomIds, pageId \in PageIdInputs :
          removePageRecorded(roomId, pageId) =>
            IsSubSeq(IdsOf(PagesOf(rooms', roomId)), IdsOf(PagesOf(rooms, roomId)))
     /\ \A r \in RoomIds : PageIds(PagesOf(rooms', r)) \cap removed'[r] = {}
    ]_vars

\* C9: the participant count stored for a room equals the number of live
\* connections joined to it (stated for the rooms whose count is a number,
\* that is, the rooms created by joinRoom).
CountIsLiveConnections ==
  \A r \in DOMAIN rooms :
    rooms[r].participants \notin {Undefined, NaN} =>
      rooms[r].participants = Cardinality(Members(r))

(***************************************************************************)
(* The durable-user-id server, src/unnamed/part_015 lines 272-351.         *)
(* rooms maps roomId -> [users, count].                                    *)
(***************************************************************************)
\* a joinRoom payload without userId destructures to undefined
UndefinedId == "undefined"
UserIds == {"u1", "u2"}
UserIdInputs == UserIds \cup {UndefinedId}

\* userSockets.get(socket.id)
GetUser(us, s) == IF s \in DOMAIN us THEN us[s] ELSE UndefinedId

\* userSockets.set(socket.id, userId)
SetUser(us, s, userId) ==
  [t \in DOMAIN us \cup {s} |-> IF t = s THEN userId ELSE us[t]]

\* userSockets.delete(socket.id)
DeleteUser(us, s) == [t \in DOMAIN us \ {s} |-> us[t]]

\* socket.on('joinRoom', ({ roomId, userId }) => ...)
joinRoomUsers(s, roomId, userId) ==
  /\ conn[s] = "open"
  /\ IF ~validateRoomId(roomId)
     THEN /\ out' = {}
          /\ UNCHANGED <<rooms, sids, userSockets>>
     ELSE LET room == IF roomId \in DOMAIN rooms
                      THEN rooms[roomId]
                      ELSE [users |-> {}, count |-> 0]
              users == room.users \cup {userId}
              joined == IF userId \notin room.users
                        THEN [users |-> users, count |-> Cardinality(users)]
                        ELSE room
          IN /\ userSockets' = SetUser(userSockets, s, userId)
             /\ rooms' = IF userId \notin room.users
                         THEN SetRoom(rooms, roomId, joined)
                         ELSE rooms
             /\ IF userId = UndefinedId
                THEN \* userId.slice(-4) throws; the catch only logs
                     /\ out' = {}
                     /\ UNCHANGED sids
                ELSE /\ out' = EmitRoom(roomId, "user-joined", joined.count, NoPages)
                               \cup {Msg(s, "force-update-count", joined.count, NoPages)}
                     /\ sids' = [sids EXCEPT ![s] = @ \cup {roomId}]
  /\ UNCHANGED <<conn, now, removed, aiVars, clients>>

\* the body of the 'disconnect' handler for one roomId of socket.rooms;
\* st is [rooms, out]
LeaveRoomUsers(st, cn, sd, roomId, userId) ==
  IF roomId \in DOMAIN st.rooms /\ userId \in st.rooms[roomId].users
  THEN LET users == st.rooms[roomId].users \ {userId}
           newCount == Cardinality(users)
           room == [users |-> users, count |-> newCount]
           sent == {Msg(t, "user-left", newCount, NoPages) :
                      t \in MembersOf(cn, sd, roomId)}
       IN [rooms |-> IF newCount <= 0
                     THEN DeleteRoom(st.rooms, roomId)
                     ELSE SetRoom(st.rooms, roomId, room),
           out |-> st.out \cup sent]
  ELSE st

\* Array.from(socket.rooms).forEach(...) of the 'disconnect' handler
RECURSIVE LeaveRoomsUsers(_, _, _, _, _)
LeaveRoomsUsers(st, cn, sd, socketRooms, userId) ==
  IF socketRooms = {} THEN st
  ELSE LET roomId == CHOOSE r \in socketRooms : TRUE
       IN LeaveRoomsUsers(LeaveRoomUsers(st, cn, sd, roomId, userId), cn, sd,
                          socketRooms \ {roomId}, userId)

\* a connection closes: socket.io cleans the socket up, then runs
\* socket.on('disconnect')
disconnectUsers(s) ==
  /\ conn[s] = "open"
  /\ conn' = [conn EXCEPT ![s] = "idle"]
  /\ sids' = LeaveAll(sids, s)
  /\ userSockets' = DeleteUser(userSockets, s)
  /\ LET st == LeaveRoomsUsers([rooms |-> rooms, out |-> {}], conn', sids',
                               SocketRooms(sids', s), GetUser(userSockets, s))
     IN /\ rooms' = st.rooms
        /\ out' = st.out
  /\ UNCHANGED <<now, removed, aiVars, clients>>

NextUsers ==
  \/ \E s \in Sockets : Connect(s)
  \/ \E s \in Sockets, roomId \in WideRoomIdInputs, userId \in UserIdInputs :
        joinRoomUsers(s, roomId, userId)
  \/ \E s \in Sockets : disconnectUsers(s)

SpecUsers == Init /\ [][NextUsers]_vars

(***************************************************************************)
(* Properties of the durable-user-id server (SpecUsers).                   *)
(***************************************************************************)
\* the user ids with a live session joined to roomId
LiveUsers(cn, sd, us, roomId) == {GetUser(us, s) : s \in MembersOf(cn, sd, roomId)}

\* C1: a joinRoom by a user id that is already in the room's set leaves the
\* count as it is, and the count carried by the 'user-joined' and
\* 'force-update-count' it emits is at most the number of distinct user ids
\* that have joined the room and not left.
JoinIdempotent ==
  [][\A s \in Sockets, roomId \in RoomIds \cup {"r2"}, userId \in UserIdInputs :
       joinRoomUsers(s, roomId, userId) =>
         /\ (roomId \in DOMAIN rooms /\ userId \in rooms[roomId].users) =>
              rooms'[roomId].count = rooms[roomId].count
         /\ \A m \in out' :
              m.ev \in {"user-joined", "force-update-count"} =>
                m.n <= Cardinality(LiveUsers(conn', sids', userSockets', roomId))
    ]_vars

\* C10: a room's user set is the set of user ids with a live session joined
\* to the room, and room.count is its size.
UsersAreLiveUsers ==
  \A r \in DOMAIN rooms :
    /\ rooms[r].users = LiveUsers(conn, sids, userSockets, r)
    /\ rooms[r].count = Cardinality(rooms[r].users)

(***************************************************************************)
(* The userActivity server, src/server/server.js lines 300-504.            *)
(* rooms maps roomId -> participant count.                                 *)
(***************************************************************************)
\* socket.on('joinRoom')
joinRoomActivity(s, roomId) ==
  /\ conn[s] = "open"
  /\ IF ~validateRoomId(roomId)
     THEN /\ out' = {Msg(s, "error", Undefined, NoPages)}
          /\ UNCHANGED <<rooms, sids>>
     ELSE LET previousCount == IF roomId \in DOMAIN rooms THEN rooms[roomId] ELSE 0
              newCount == previousCount + 1
          IN /\ previousCount < MaxCount
             /\ sids' = [sids EXCEPT ![s] = @ \cup {roomId}]
             /\ rooms' = SetRoom(rooms, roomId, newCount)
             /\ out' = {Msg(t, "userActivity", newCount, NoPages) :
                          t \in MembersOf(conn, sids', roomId) \ {s}}
                       \cup {Msg(s, "roomStatus", newCount, NoPages)}
  /\ UNCHANGED <<conn, now, removed, userSockets, aiVars, clients>>

\* first 'disconnect' handler (lines 350-368), one roomId; st is [rooms, out]
LeaveRoomNotify(st, cn, sd, roomId) ==
  IF roomId \in DOMAIN st.rooms
  THEN LET newCount == st.rooms[roomId] - 1
           sent == {Msg(t, "userActivity", newCount, NoPages) :
                      t \in MembersOf(cn, sd, roomId)}
       IN [rooms |-> IF newCount <= 0
                     THEN DeleteRoom(st.rooms, roomId)
                     ELSE SetRoom(st.rooms, roomId, newCount),
           out |-> st.out \cup sent]
  ELSE st

RECURSIVE LeaveRoomsNotify(_, _, _, _)
LeaveRoomsNotify(st, cn, sd, socketRooms) ==
  IF socketRooms = {} THEN st
  ELSE LET roomId == CHOOSE r \in socketRooms : TRUE
       IN LeaveRoomsNotify(LeaveRoomNotify(st, cn, sd, roomId), cn, sd,
                           socketRooms \ {roomId})

\* second 'disconnect' handler (lines 494-503), one roomId
LeaveRoomCount(rms, roomId) ==
  IF roomId \in DOMAIN rms
  THEN LET count == rms[roomId] - 1
       IN IF count <= 0 THEN DeleteRoom(rms, roomId)
          ELSE SetRoom(rms, roomId, count)
  ELSE rms

RECURSIVE LeaveRoomsCount(_, _)
LeaveRoomsCount(rms, socketRooms) ==
  IF socketRooms = {} THEN rms
  ELSE LET roomId == CHOOSE r \in socketRooms : TRUE
       IN LeaveRoomsCount(LeaveRoomCount(rms, roomId), socketRooms \ {roomId})

\* a connection closes: socket.io cleans the socket up, then runs both
\* registered 'disconnect' handlers in registration order
disconnectActivity(s) ==
  /\ conn[s] = "open"
  /\ conn' = [conn EXCEPT ![s] = "idle"]
  /\ sids' = LeaveAll(sids, s)
  /\ LET first == LeaveRoomsNotify([rooms |-> rooms, out |-> {}], conn', sids',
                                   SocketRooms(sids', s))
     IN /\ rooms' = LeaveRoomsCount(first.rooms, SocketRooms(sids', s))
        /\ out' = first.out
  /\ UNCHANGED <<now, removed, userSockets, aiVars, clients>>

NextActivity ==
  \/ \E s \in Sockets : Connect(s)
  \/ \E s \in Sockets, roomId \in WideRoomIdInputs : joinRoomActivity(s, roomId)
  \/ \E s \in Sockets : disconnectActivity(s)

SpecActivity == Init /\ [][NextActivity]_vars

(***************************************************************************)
(* Properties of the userActivity server (SpecActivity).                   *)
(***************************************************************************)
\* C8: one disconnect of a session lowers the count of every room it had
\* joined by exactly 1, and the room is deleted only when that brings the
\* count to 0.
DisconnectLowersByOne ==
  [][\A s \in Sockets :
       disconnectActivity(s) =>
         \A r \in sids[s] :
           r \in DOMAIN rooms =>
             IF rooms[r] = 1
             THEN r \notin DOMAIN rooms'
             ELSE r \in DOMAIN rooms' /\ rooms'[r] = rooms[r] - 1
    ]_vars

\* the registry's count of a room (0 for a room that is not in the registry)
CountAfter(rms, roomId) == IF roomId \in DOMAIN rms THEN rms[roomId] ELSE 0

\* C11: on every membership change of a room every session that is in the
\* room after the change is sent the registry's count after the change: on
\* joinRoom the joiner gets roomStatus and every other member userActivity,
\* on disconnect every remaining member gets userActivity.
PresenceBroadcast ==
  [][/\ \A s \in Sockets, roomId \in RoomIds \cup {"r2"} :
          joinRoomActivity(s, roomId) =>
            /\ Msg(s, "roomStatus", CountAfter(rooms', roomId), NoPages) \in out'
            /\ \A t \in MembersOf(conn', sids', roomId) \ {s} :
                 Msg(t, "userActivity", CountAfter(rooms', roomId), NoPages) \in out'
     /\ \A s \in Sockets :
          disconnectActivity(s) =>
            \A r \in sids[s] :
              \A t \in MembersOf(conn', sids', r) :
                Msg(t, "userActivity", CountAfter(rooms', r), NoPages) \in out'
    ]_vars

(***************************************************************************)
(* Relay handlers of the page-keeping server, src/unnamed/part_014 lines   *)
(* 72-84 and 274-316.  A field of an event payload is a JavaScript value:  *)
(* a record [kind, val] whose kind is "number" (the integer val), "half"   *)
(* (the number val + 0.5), "NaN" (a number for typeof, false in every      *)
(* comparison), "string", "boolean" or "undefined" (the field is missing). *)
(***************************************************************************)
Num(n) == [kind |-> "number", val |-> n]

\* the number n + 0.5
Half(n) == [kind |-> "half", val |-> n]

NotANumber == [kind |-> "NaN", val |-> 0]

Str(str) == [kind |-> "string", val |-> str]

Bool(b) == [kind |-> "boolean", val |-> b]

Undef == [kind |-> "undefined", val |-> 0]

\* typeof v
TypeOf(v) == IF v.kind \in {"NaN", "half"} THEN "number" ELSE v.kind

\* v >= n and v <= n and v < n, evaluated after typeof v === 'number'
Geq(v, n) == v.kind \in {"number", "half"} /\ v.val >= n

Leq(v, n) ==
  \/ v.kind = "number" /\ v.val <= n
  \/ v.kind = "half" /\ v.val < n

Lt(v, n) == v.kind \in {"number", "half"} /\ v.val < n

\* the truthiness of a JavaScript value (data.isErasing ? ... : ...)
Truthy(v) ==
  CASE v.kind = "number" -> v.val # 0
    [] v.kind = "half" -> TRUE
    [] v.kind = "NaN" -> FALSE
    [] v.kind = "string" -> v.val # ""
    [] v.kind = "boolean" -> v.val
    [] OTHER -> FALSE

\* canvas limits of validateDrawData
MaxX == 640

MaxY == 480

\* a 'draw' payload none of whose fields is set, standing for a null payload
NullData ==
  [roomId |-> "", x |-> Undef, y |-> Undef, page |-> Undef,
   isErasing |-> Undef, compositeOperation |-> Undef, color |-> Undef]

\* validateDrawData without the coordinate range tests
validateDrawDataNoRange(data) ==
  /\ data # NullData
  /\ TypeOf(data.x) = "number"
  /\ TypeOf(data.y) = "number"
  /\ TypeOf(data.page) = "number"
  /\ validateRoomId(data.roomId)

validateDrawData(data) ==
  /\ data # NullData
  /\ TypeOf(data.x) = "number"
  /\ TypeOf(data.y) = "number"
  /\ TypeOf(data.page) = "number"
  /\ Geq(data.x, 0) /\ Leq(data.x, MaxX)
  /\ Geq(data.y, 0) /\ Leq(data.y, MaxY)
  /\ validateRoomId(data.roomId)

\* validatePageIndex that lets the index one past the last page through
validatePageIndexInclusive(room, pageIndex) ==
  Geq(pageIndex, 0) /\ Leq(pageIndex, Len(room.pages))

validatePageIndex(room, pageIndex) ==
  Geq(pageIndex, 0) /\ Lt(pageIndex, Len(room.pages))

\* one delivered relay event with its payload
Relay(to, ev, data) == [to |-> to, ev |-> ev, data |-> data]

\* draw that keeps the compositeOperation the client sent, when it sent one
AnnotateKeepClient(data) ==
  IF data.compositeOperation # Undef THEN data ELSE
  [data EXCEPT !.compositeOperation =
     IF Truthy(data.isErasing) THEN Str("destination-out") ELSE Str("source-over")]

\* { ...data, compositeOperation: data.isErasing ? 'destination-out' : 'source-over' }
Annotate(data) ==
  [data EXCEPT !.compositeOperation =
     IF Truthy(data.isErasing) THEN Str("destination-out") ELSE Str("source-over")]

\* socket.on('draw'): the handler
drawHandler(data) ==
  /\ Connected # {}
  /\ IF ~validateDrawData(data)
     THEN out' = {}
     ELSE IF /\ data.roomId \in DOMAIN rooms
             /\ validatePageIndex(rooms[data.roomId], data.page)
          THEN out' = {Relay(t, "draw", Annotate(data)) : t \in Members(data.roomId)}
          ELSE out' = {}
  /\ UNCHANGED <<rooms, sids, conn, now, removed, userSockets, aiVars>>

\* socket.on('draw')
draw(data) ==
  /\ drawHandler(data)
  /\ UNCHANGED clients

\* the 'draw' payloads of the model: a valid stroke point with one field at a
\* time replaced, and every pairing of isErasing with a client-sent
\* compositeOperation
BaseDraw ==
  [roomId |-> "r1", x |-> Num(0), y |-> Num(0), page |-> Num(0),
   isErasing |-> Bool(FALSE), compositeOperation |-> Undef, color |-> Str("red")]

XInputs == {Num(-1), Num(0), Num(MaxX), Num(MaxX + 1), NotANumber, Str("5"), Undef}

YInputs == {Num(-1), Num(0), Num(MaxY), Num(MaxY + 1), NotANumber, Str("5"), Undef}

PageInputs ==
  {Num(n) : n \in -1..MaxPages} \cup {Half(0), NotANumber, Str("0"), Undef}

IsErasingInputs == {Bool(TRUE), Bool(FALSE), Undef, Num(0), Num(1), Str("no")}

CompositeInputs == {Undef, Str("destination-out"), Str("xor")}

DrawInputs ==
  {NullData}
  \cup {[BaseDraw EXCEPT !.x = v] : v \in XInputs}
  \cup {[BaseDraw EXCEPT !.y = v] : v \in YInputs}
  \cup {[BaseDraw EXCEPT !.page = v] : v \in PageInputs}
  \cup {[BaseDraw EXCEPT !.roomId = r] : r \in WideRoomIdInputs}
  \cup {[BaseDraw EXCEPT !.isErasing = e, !.compositeOperation = c] :
          e \in IsErasingInputs, c \in CompositeInputs}
  \cup {[BaseDraw EXCEPT !.x = Num(MaxX + 1), !.page = v] : v \in PageInputs}
  \cup {[BaseDraw EXCEPT !.x = Num(MaxX), !.y = Num(MaxY)]}

NextDraw ==
  \/ \E s \in Sockets : Connect(s)
  \/ \E s \in Sockets, roomId \in RoomIdInputs : joinRoom(s, roomId)
  \/ \E roomId \in RoomIdInputs, pageId \in PageIdInputs,
        imageData \in ImageData : addPage(roomId, pageId, imageData)
  \/ \E roomId \in RoomIdInputs, pageId \in PageIdInputs :
        removePage(roomId, pageId)
  \/ \E data \in DrawInputs : draw(data)
  \/ \E s \in Sockets : disconnect(s)

SpecDraw == Init /\ [][NextDraw]_vars

(***************************************************************************)
(* Properties of the draw relay (SpecDraw).                                *)
(***************************************************************************)
\* the sessions joined to a room
JoinedSessions(roomId) == {t \in Sockets : conn[t] = "open" /\ roomId \in sids[t]}

\* the isErasing values of the model that JavaScript takes as true
ErasingValues == {Bool(TRUE), Num(1), Str("no")}

\* C12: every draw the server accepts (valid payload, room in the registry,
\* page index inside its page list) is emitted to every session joined to
\* the room, the sender included, with every inbound field unchanged and
\* compositeOperation 'destination-out' exactly when isErasing is truthy and
\* 'source-over' otherwise, whatever compositeOperation the client sent.
DrawRelayAnnotated ==
  [][\A data \in DrawInputs :
       ( /\ validateDrawData(data)
         /\ data.roomId \in DOMAIN rooms
         /\ validatePageIndex(rooms[data.roomId], data.page)
         /\ draw(data) ) =>
         /\ {m.to : m \in out'} = JoinedSessions(data.roomId)
         /\ \A m \in out' :
              /\ m.ev = "draw"
              /\ m.data.roomId = data.roomId
              /\ m.data.x = data.x
              /\ m.data.y = data.y
              /\ m.data.page = data.page
              /\ m.data.isErasing = data.isErasing
              /\ m.data.color = data.color
              /\ m.data.compositeOperation =
                   IF data.isErasing \in ErasingValues
                   THEN Str("destination-out")
                   ELSE Str("source-over")
    ]_vars

\* C12 witness: both sessions of a room have been sent an erasing draw
\* (isErasing a non-empty string) annotated 'destination-out'.
ErasingDrawRelayed ==
  /\ Cardinality({m.to : m \in out}) = 2
  /\ \E m \in out :
       /\ m.ev = "draw"
       /\ m.data.isErasing = Str("no")
       /\ m.data.compositeOperation = Str("destination-out")

\* the draw payloads the validation rule lets through: x and y numbers within
\* the canvas, page a number, roomId a non-empty string
WellFormedDraw(data) ==
  /\ data.x.kind = "number" /\ 0 <= data.x.val /\ data.x.val <= 640
  /\ data.y.kind = "number" /\ 0 <= data.y.val /\ data.y.val <= 480
  /\ data.page.kind \in {"number", "half", "NaN"}
  /\ data.roomId # ""

\* C13: no draw is relayed unless its x and y are numbers with 0 <= x <= 640
\* and 0 <= y <= 480, its page is a number and its roomId is a non-empty
\* string; the relayed coordinates are the inbound ones (not clamped); a
\* rejected draw emits nothing and leaves the registry as it is.
DrawValidation ==
  [][\A data \in DrawInputs :
       draw(data) =>
         /\ \A m \in out' :
              /\ WellFormedDraw(m.data)
              /\ m.data.x = data.x
              /\ m.data.y = data.y
         /\ ~WellFormedDraw(data) => out' = {} /\ rooms' = rooms
    ]_vars

\* C13 witness: a draw on the far corner of the canvas has been relayed.
CornerDrawRelayed ==
  \E m \in out :
    /\ m.ev = "draw"
    /\ m.data.x = Num(640)
    /\ m.data.y = Num(480)

\* the page value is a number p with 0 <= p < n
PageWithin(page, n) ==
  /\ page.kind \in {"number", "half"}
  /\ 0 <= page.val
  /\ page.val < n

MaxMessage == 200

\* str.substring(0, end)
Substring(str, end) == SubSeq(str, 1, IF Len(str) < end THEN Len(str) ELSE end)

\* a string of n copies of str
RECURSIVE Repeat(_, _)
Repeat(str, n) ==
  IF n = 0 THEN ""
  ELSE IF n % 2 = 0 THEN LET half == Repeat(str, n \div 2) IN half \o half
  ELSE str \o Repeat(str, n - 1)

\* chatMessage that relays the body at its full length
chatMessageNoTruncate(msgData) ==
  /\ Connected # {}
  /\ IF ~Truthy(msgData.message) \/ ~validateRoomId(msgData.roomId)
     THEN out' = {}
     ELSE IF TypeOf(msgData.message) # "string"
          THEN out' = {}
          ELSE out' = {Relay(t, "chatMessage", [msgData EXCEPT !.timestamp = Num(now)]) :
                         t \in Members(msgData.roomId)}
  /\ UNCHANGED <<rooms, sids, conn, now, removed, userSockets, aiVars, clients>>

\* socket.on('chatMessage'); a truthy message that is no string has no
\* substring method: the TypeError is caught and logged, nothing is emitted
chatMessage(msgData) ==
  /\ Connected # {}
  /\ IF ~Truthy(msgData.message) \/ ~validateRoomId(msgData.roomId)
     THEN out' = {}
     ELSE IF TypeOf(msgData.message) # "string"
          THEN out' = {}
          ELSE LET sanitizedMessage == Substring(msgData.message.val, MaxMessage)
                   finalData == [msgData EXCEPT !.message = Str(sanitizedMessage),
                                                !.timestamp = Num(now)]
               IN out' = {Relay(t, "chatMessage", finalData) :
                            t \in Members(msgData.roomId)}
  /\ UNCHANGED <<rooms, sids, conn, now, removed, userSockets, aiVars, clients>>

\* the chatMessage payloads of the model: bodies that are missing, empty,
\* short, exactly at and one over the limit, and a number; with and without
\* a client-sent timestamp
MessageInputs ==
  {Undef, Str(""), Str("hi"), Str(Repeat("a", MaxMessage - 1) \o "b"),
   Str(Repeat("a", MaxMessage) \o "b"), Num(5)}

TimestampInputs == {Undef, Num(0)}

ChatInputs ==
  [roomId : WideRoomIdInputs, username : {Str("ann")}, message : MessageInputs,
   timestamp : TimestampInputs]

NextChat ==
  \/ \E s \in Sockets : Connect(s)
  \/ Tick
  \/ \E s \in Sockets, roomId \in RoomIdInputs : joinRoom(s, roomId)
  \/ \E msgData \in ChatInputs : chatMessage(msgData)
  \/ \E s \in Sockets : disconnect(s)

SpecChat == Init /\ [][NextChat]_vars

(***************************************************************************)
(* Properties of the chat relay (SpecChat).                                *)
(***************************************************************************)
\* the first 200 characters of a string
First200(str) == SubSeq(str, 1, IF Len(str) <= 200 THEN Len(str) ELSE 200)

\* C14: a chatMessage with a non-empty string body and a valid roomId is
\* broadcast to every session joined to the room with message the first 200
\* characters of the inbound body, timestamp the server clock at handling
\* time (whatever timestamp the client sent) and the other fields unchanged;
\* a chatMessage whose body is empty or missing is dropped with no broadcast.
ChatRelaySanitized ==
  [][\A msgData \in ChatInputs :
       chatMessage(msgData) =>
         /\ ( /\ msgData.message.kind = "string"
              /\ msgData.message.val # ""
              /\ msgData.roomId # "" ) =>
              /\ {m.to : m \in out'} = JoinedSessions(msgData.roomId)
              /\ \A m \in out' :
                   /\ m.ev = "chatMessage"
                   /\ m.data.message = Str(First200(msgData.message.val))
                   /\ m.data.timestamp = Num(now)
                   /\ m.data.roomId = msgData.roomId
                   /\ m.data.username = msgData.username
         /\ msgData.message \in {Undef, Str("")} => out' = {}
    ]_vars

\* C14 witness: both sessions of a room have been sent a chat message cut to
\* 200 characters and stamped with the server clock.
LongChatTruncated ==
  /\ Cardinality({m.to : m \in out}) = 2
  /\ \E m \in out :
       /\ m.ev = "chatMessage"
       /\ m.data.message = Str(Repeat("a", 200))
       /\ m.data.timestamp = Num(now)

\* C15: when a chat message is broadcast in a room right after another one,
\* the later one carries a strictly greater timestamp, also when both are
\* handled at the same value of the server clock.
ChatTimestampsIncrease ==
  [][\A msgData \in ChatInputs :
       chatMessage(msgData) =>
         \A m1 \in out, m2 \in out' :
           ( /\ m1.ev = "chatMessage"
             /\ m1.data.roomId = m2.data.roomId ) =>
             m2.data.timestamp.val > m1.data.timestamp.val
    ]_vars

(***************************************************************************)
(* The AI assistant path: socket.on('processWithAI') of the page-keeping   *)
(* server, src/unnamed/part_014 lines 182-272, and the client's            *)
(* processAISubmission, src/client2/src/HandGesture.js lines 196-240.      *)
(* The handler runs up to its await in one step; the awaited               *)
(* generateContent call is an element of pending until it resolves,        *)
(* rejects or is aborted by the 15 s timer.  An image is the data URL the  *)
(* payload carries: [truthy, parts, len, pad] with parts the number of     *)
(* comma-separated parts, len the length of the second part and pad the    *)
(* number of '=' that end it.                                              *)
(***************************************************************************)
\* const maxSize = 4 * 1024 * 1024
MaxSize == 4194304

\* Buffer.byteLength(str, 'base64')
Base64ByteLength(image) == ((image.len - image.pad) * 3) \div 4

\* str.includes(sub)
Includes(str, sub) ==
  \E i \in 1..(Len(str) - Len(sub) + 1) : SubSeq(str, i, i + Len(sub) - 1) = sub

\* the catch block's message without the 'large' branch
ErrorMessageNoLarge(error) ==
  IF Includes(error.message, "quota") THEN "API quota exceeded"
  ELSE IF Includes(error.message, "invalid") \/ Includes(error.message, "format")
       THEN "Invalid image format"
  ELSE IF error.name = "AbortError" THEN "Request timed out"
  ELSE "Failed to process request"

\* the catch block: the message sent for an error
ErrorMessage(error) ==
  IF Includes(error.message, "quota") THEN "API quota exceeded"
  ELSE IF Includes(error.message, "invalid") \/ Includes(error.message, "format")
       THEN "Invalid image format"
  ELSE IF Includes(error.message, "large") THEN "Image size exceeds 4MB limit"
  ELSE IF error.name = "AbortError" THEN "Request timed out"
  ELSE "Failed to process request"

\* new Error(message)
Error(message) == [name |-> "Error", message |-> message]

\* one delivered aiResponse or aiError
AiMsg(to, ev, roomId, message) ==
  [to |-> to, ev |-> ev, roomId |-> roomId, message |-> message]

\* one awaited generateContent call
Call(s, roomId) == [socket |-> s, roomId |-> roomId]

\* the handler up to its await
processWithAIHandler(s, data) ==
  /\ conn[s] = "open"
  /\ IF ~data.image.truthy \/ ~validateRoomId(data.roomId)
     THEN /\ out' = {AiMsg(s, "aiError", data.roomId, "Invalid request format")}
          /\ UNCHANGED pending
     ELSE IF data.image.parts # 2 \/ data.image.len = 0
          THEN /\ out' = {AiMsg(s, "aiError", data.roomId,
                                ErrorMessage(Error("Invalid image data format")))}
               /\ UNCHANGED pending
          ELSE IF Base64ByteLength(data.image) > MaxSize
               THEN /\ out' = {AiMsg(s, "aiError", data.roomId,
                                     ErrorMessage(Error("Image too large")))}
                    /\ UNCHANGED pending
               ELSE /\ Call(s, data.roomId) \notin pending
                    /\ pending' = pending \cup {Call(s, data.roomId)}
                    /\ out' = {}
  /\ UNCHANGED <<rooms, sids, conn, now, removed, userSockets, clients>>

\* socket.on('processWithAI')
processWithAI(s, data) ==
  /\ processWithAIHandler(s, data)
  /\ UNCHANGED lastSubmissionTime

\* str.startsWith(sub)
StartsWith(str, sub) == Len(str) >= Len(sub) /\ SubSeq(str, 1, Len(sub)) = sub

\* str.substring(start), start counted from 0
From(str, start) == SubSeq(str, start + 1, Len(str))

\* str.indexOf(sub), counted from 1, 0 when there is none
IndexOf(str, sub) ==
  IF Includes(str, sub)
  THEN CHOOSE i \in 1..(Len(str) - Len(sub) + 1) :
         /\ SubSeq(str, i, i + Len(sub) - 1) = sub
         /\ \A j \in 1..(i - 1) : SubSeq(str, j, j + Len(sub) - 1) # sub
  ELSE 0

\* str.replace(/sub/g, rep) for a literal sub: the matches are taken from
\* the left and do not overlap
RECURSIVE ReplaceAll(_, _, _)
ReplaceAll(str, sub, rep) ==
  IF str = "" THEN ""
  ELSE IF StartsWith(str, sub)
       THEN rep \o ReplaceAll(From(str, Len(sub)), sub, rep)
       ELSE SubSeq(str, 1, 1) \o ReplaceAll(From(str, 1), sub, rep)

\* str.replace(/\\boxed{(.*?)}/g, '$1') on a text without line breaks:
\* the lazy group ends at the first closing brace
Boxed == "\\boxed{"

RECURSIVE Unbox(_)
Unbox(str) ==
  IF str = "" THEN ""
  ELSE LET rest == From(str, Len(Boxed))
           close == IndexOf(rest, "}")
       IN IF StartsWith(str, Boxed) /\ close > 0
          THEN SubSeq(rest, 1, close - 1) \o Unbox(From(rest, close))
          ELSE SubSeq(str, 1, 1) \o Unbox(From(str, 1))

\* the replace chain applied to response.text()
Clean(text) ==
  ReplaceAll(
    Unbox(ReplaceAll(ReplaceAll(ReplaceAll(text, "\n", "<br>"), "**", ""),
                     "*", "")),
    "$", "")

\* aiResponse for a call that the requester's disconnect has cancelled:
\* nothing is sent once the requesting connection has closed
aiResponseCancelled(call, text) ==
  /\ call \in pending
  /\ pending' = pending \ {call}
  /\ out' = IF conn[call.socket] = "open"
            THEN {AiMsg(t, "aiResponse", call.roomId, Clean(text)) :
                    t \in Members(call.roomId)}
            ELSE {}
  /\ UNCHANGED <<rooms, sids, conn, now, removed, userSockets, lastSubmissionTime,
               clients>>

\* generateContent resolves: the response goes to the room
aiResponse(call, text) ==
  /\ call \in pending
  /\ pending' = pending \ {call}
  /\ out' = {AiMsg(t, "aiResponse", call.roomId, Clean(text)) :
               t \in Members(call.roomId)}
  /\ UNCHANGED <<rooms, sids, conn, now, removed, userSockets, lastSubmissionTime,
               clients>>

\* generateContent rejects: the catch block answers the requesting socket
aiReject(call, error) ==
  /\ call \in pending
  /\ pending' = pending \ {call}
  /\ out' = {AiMsg(call.socket, "aiError", call.roomId, ErrorMessage(error))}
  /\ UNCHANGED <<rooms, sids, conn, now, removed, userSockets, lastSubmissionTime,
               clients>>

\* the 15 s timer fires first: controller.abort() makes the awaited call
\* reject with an AbortError carrying the text of the abort
aiTimeout(call, text) == aiReject(call, [name |-> "AbortError", message |-> text])

\* the client's Date.now(): the clock of the model counts the milliseconds
\* since the server's start, which happened at Epoch
Epoch == 1000000

DateNow == Epoch + now

\* if (now - lastSubmissionTime.current < 5000) return
Cooldown == 5000

\* if (contentPixels < 100) throw new Error('Drawing too simple')
MinContent == 100

\* <canvas ref={drawingCanvasRef} width="640" height="480">
CanvasWidth == 640

CanvasHeight == 480

\* [...imageData].filter(val => val < 255).length on a canvas that clearRect
\* left transparent (r, g, b, a = 0) but for drawn pixels in an opaque
\* colour, taken as black (r, g, b = 0, a = 255)
ContentPixels(drawn) == 4 * (CanvasWidth * CanvasHeight - drawn) + 3 * drawn

\* tempCanvas.toDataURL('image/jpeg', 0.9): a data URL of some 30 kB
EnhancedImage == [truthy |-> TRUE, parts |-> 2, len |-> 40000, pad |-> 0]

\* the client's processAISubmission in room roomId with drawn pixels on its
\* canvas, followed by the server's handling of the event it emits; the
\* server has no handler for the 'aiError' the client emits
processAISubmission(c, roomId, drawn) ==
  /\ conn[c] = "open"
  /\ roomId \in sids[c]
  /\ IF DateNow - lastSubmissionTime[c] < Cooldown
     THEN /\ out' = {}
          /\ UNCHANGED <<rooms, sids, conn, now, removed, userSockets, aiVars, clients>>
     ELSE /\ lastSubmissionTime' = [lastSubmissionTime EXCEPT ![c] = DateNow]
          /\ IF ContentPixels(drawn) < MinContent
             THEN /\ out' = {}
                  /\ UNCHANGED <<rooms, sids, conn, now, removed, userSockets, pending,
                               clients>>
             ELSE processWithAIHandler(c, [roomId |-> roomId, image |-> EnhancedImage])

\* the images of the model: none, no comma, an empty second part, a small
\* one, one of exactly 4 MiB, one of 4 MiB + 1, one of 5 MiB, three parts
NoImage == [truthy |-> FALSE, parts |-> 0, len |-> 0, pad |-> 0]

ImageInputs ==
  {NoImage,
   [truthy |-> TRUE, parts |-> 1, len |-> 0, pad |-> 0],
   [truthy |-> TRUE, parts |-> 2, len |-> 0, pad |-> 0],
   [truthy |-> TRUE, parts |-> 2, len |-> 8, pad |-> 1],
   [truthy |-> TRUE, parts |-> 2, len |-> 5592408, pad |-> 2],
   [truthy |-> TRUE, parts |-> 2, len |-> 5592408, pad |-> 1],
   [truthy |-> TRUE, parts |-> 2, len |-> 6990508, pad |-> 1],
   [truthy |-> TRUE, parts |-> 3, len |-> 8, pad |-> 0]}

AIInputs == [roomId : RoomIdInputs, image : ImageInputs]

DrawnInputs == {0, 50}

ResponseTexts == {"x = 2"}

ErrorInputs == {Error("429 quota exceeded"), Error("fetch failed")}

AbortTexts == {"This operation was aborted", "Request aborted: invalid state"}

NextAI ==
  \/ \E s \in Sockets : Connect(s)
  \/ \E s \in Sockets, roomId \in RoomIdInputs : joinRoom(s, roomId)
  \/ \E s \in Sockets, data \in AIInputs : processWithAI(s, data)
  \/ \E c \in Sockets, roomId \in RoomIds, drawn \in DrawnInputs :
        processAISubmission(c, roomId, drawn)
  \/ \E call \in pending, text \in ResponseTexts : aiResponse(call, text)
  \/ \E call \in pending, error \in ErrorInputs : aiReject(call, error)
  \/ \E call \in pending, text \in AbortTexts : aiTimeout(call, text)

SpecAI == Init /\ [][NextAI]_vars

(***************************************************************************)
(* Properties of the AI assistant path (SpecAI).                           *)
(***************************************************************************)
\* the number of bytes a well-formed base64 text decodes to
DecodedBytes(image) == 3 * (image.len \div 4) - image.pad

BlankSubmissionRejected ==
  [][\A c \in Sockets, roomId \in RoomIds :
       ( /\ processAISubmission(c, roomId, 0)
         /\ DateNow - lastSubmissionTime[c] >= Cooldown ) =>
         /\ pending' = pending
         /\ \A t \in JoinedSessions(roomId) :
              \E m \in out' : m.to = t /\ m.ev = "aiError"
    ]_vars

\* C18: when the 15 s timer aborts a call, an aiError with the message
\* 'Request timed out' is emitted for the request, whatever text the abort
\* error carries, the call is abandoned and no aiResponse is emitted.
TimeoutMessage ==
  [][\A call \in pending, text \in AbortTexts :
       aiTimeout(call, text) =>
         /\ call \notin pending'
         /\ \E m \in out' : m.ev = "aiError" /\ m.roomId = call.roomId
         /\ \A m \in out' : m.ev = "aiError" /\ m.message = "Request timed out"
    ]_vars

\* C19: the outcome of a processWithAI request, aiResponse and aiError
\* alike, is delivered to every session joined to the request's room.
OutcomeRoomWide ==
  [][/\ \A call \in pending, text \in ResponseTexts :
          aiResponse(call, text) =>
            \A t \in JoinedSessions(call.roomId) :
              AiMsg(t, "aiResponse", call.roomId, text) \in out'
     /\ \A call \in pending, error \in ErrorInputs :
          aiReject(call, error) =>
            \A t \in JoinedSessions(call.roomId) :
              \E m \in out' : m.to = t /\ m.ev = "aiError"
     /\ \A s \in Sockets, data \in AIInputs :
          ( /\ processWithAI(s, data)
            /\ data.roomId # ""
            /\ pending' = pending ) =>
            \A t \in JoinedSessions(data.roomId) :
              \E m \in out' : m.to = t /\ m.ev = "aiError"
    ]_vars

\* C20: a submission for a room that arrives while an earlier submission
\* for the same room is inside the cooldown window (every two submissions
\* of a behaviour are: the clock of the model spans a few milliseconds)
\* starts no generateContent call and is answered with an aiError.
RoomThrottled ==
  [][\A s \in Sockets, data \in AIInputs :
       ( /\ processWithAI(s, data)
         /\ \E call \in pending : call.roomId = data.roomId ) =>
         /\ pending' = pending
         /\ \E m \in out' : m.ev = "aiError"
    ]_vars

(***************************************************************************)
(* Further properties of the page-keeping server (Spec).                   *)
(***************************************************************************)
\* C26: every room in the registry has a participant count that is an
\* integer >= 1 (a room enters the registry only through a joinRoom; an
\* addPage for a room nobody has joined creates no entry).
NoZombieRooms ==
  \A r \in DOMAIN rooms :
    /\ rooms[r].participants \notin {Undefined, NaN}
    /\ rooms[r].participants >= 1

\* C28: requestInitialState for a room id produces exactly one initialState
\* event, sent to the requesting session only, that carries the room's
\* current page list (the empty list when the room is not in the registry),
\* and the registry is the same after it: the room is not added and no room
\* changes.
InitialStateTargeted ==
  [][\A s \in Sockets, roomId \in RoomIds :
       requestInitialState(s, roomId) =>
         /\ Cardinality(out') = 1
         /\ \A m \in out' :
              /\ m.to = s
              /\ m.ev = "initialState"
              /\ m.pages = IF roomId \in DOMAIN rooms THEN rooms[roomId].pages
                           ELSE <<>>
         /\ rooms' = rooms
    ]_vars

\* C28 witness: with two sessions in a room of two pages, the first holding
\* a snapshot, one session alone has been sent the list as initialState.
InitialStateSent ==
  \E r \in DOMAIN rooms :
    /\ Cardinality(Members(r)) = 2
    /\ Len(rooms[r].pages) = 2
    /\ rooms[r].pages[1].imageData = "a"
    /\ Cardinality(out) = 1
    /\ \E m \in out : m.ev = "initialState" /\ m.pages = rooms[r].pages


\* C25: the steps of the two-session scenario notify the session that stays.
\* When a session joins a room another session is in, the joiner is told
\* the new count and the other session receives a notification; when one of
\* two sessions of a room counted 2 disconnects, the count becomes 1 and the
\* session that stays is notified.  (The scenario's addPage and
\* requestInitialState steps are AddPageAtomic and InitialStateTargeted.)
ScenarioNotifications ==
  [][\A s, t \in Sockets, r \in RoomIds :
       (s # t /\ r \in DOMAIN rooms /\ t \in Members(r)) =>
         /\ (s \notin Members(r) /\ joinRoom(s, r)) =>
              /\ Msg(s, "roomStatus", rooms'[r].participants, NoPages) \in out'
              /\ \E m \in out' : m.to = t
         /\ (s \in Members(r) /\ rooms[r].participants = 2 /\ disconnect(s)) =>
              /\ r \in DOMAIN rooms'
              /\ rooms'[r].participants = 1
              /\ \E m \in out' : m.to = t
    ]_vars


(***************************************************************************)
(* The response clean-up of processWithAI on texts with markup (SpecClean): *)
(* the texts are the concatenations of up to MaxTokens of Tokens.           *)
(***************************************************************************)
MaxTokens == 4

Tokens == {Boxed, "}", "$", "*", "\n"}

RECURSIVE Concat(_)
Concat(strs) == IF strs = <<>> THEN "" ELSE Head(strs) \o Concat(Tail(strs))

MarkupTexts ==
  {Concat(strs) : strs \in UNION {[1..n -> Tokens] : n \in 1..MaxTokens}}

\* a request the handler passes on to generateContent
CleanInputs ==
  {[roomId |-> roomId,
    image |-> [truthy |-> TRUE, parts |-> 2, len |-> 8, pad |-> 1]] :
     roomId \in RoomIds}

NextClean ==
  \/ \E s \in Sockets : Connect(s)
  \/ \E s \in Sockets, roomId \in RoomIds : joinRoom(s, roomId)
  \/ \E s \in Sockets, data \in CleanInputs : processWithAI(s, data)
  \/ \E call \in pending, text \in MarkupTexts : aiResponse(call, text)

SpecClean == Init /\ [][NextClean]_vars

\* C21: the clean-up is idempotent: the text of every aiResponse that is
\* sent, clean(t), is left as it is by a second clean-up, clean(clean(t)) =
\* clean(t), nested \boxed{\boxed{x}} included.
CleanIdempotent ==
  \A m \in out : m.ev = "aiResponse" => Clean(m.message) = m.message


(***************************************************************************)
(* The earlier processWithAI of src/unnamed/part_013 lines 105-174         *)
(* (SpecEarlier): no size check, and a catch block that passes the         *)
(* error's message on.                                                     *)
(***************************************************************************)
\* the catch block: the message sent for an error
ErrorMessageEarlier(error) ==
  IF error.name = "AbortError" THEN "Request timed out"
  ELSE IF error.message # "" THEN error.message
  ELSE "Failed to process request"

\* the handler up to its await
processWithAIEarlier(s, data) ==
  /\ conn[s] = "open"
  /\ IF ~data.image.truthy \/ ~validateRoomId(data.roomId)
     THEN /\ out' = {AiMsg(s, "aiError", data.roomId, "Invalid request format")}
          /\ UNCHANGED pending
     ELSE IF data.image.parts # 2 \/ data.image.len = 0
          THEN /\ out' = {AiMsg(s, "aiError", data.roomId,
                                ErrorMessageEarlier(Error("Invalid image data format")))}
               /\ UNCHANGED pending
          ELSE /\ Call(s, data.roomId) \notin pending
               /\ pending' = pending \cup {Call(s, data.roomId)}
               /\ out' = {}
  /\ UNCHANGED <<rooms, sids, conn, now, removed, userSockets, lastSubmissionTime,
               clients>>

\* generateContent resolves: the response goes to the room
aiResponseEarlier(call, text) ==
  /\ call \in pending
  /\ pending' = pending \ {call}
  /\ out' = {AiMsg(t, "aiResponse", call.roomId,
                   ReplaceAll(ReplaceAll(ReplaceAll(text, "\n", "<br>"),
                                         "**", "<strong>"),
                              "*", "<em>")) :
               t \in Members(call.roomId)}
  /\ UNCHANGED <<rooms, sids, conn, now, removed, userSockets, lastSubmissionTime,
               clients>>

\* generateContent rejects: the catch block answers the requesting socket
aiRejectEarlier(call, error) ==
  /\ call \in pending
  /\ pending' = pending \ {call}
  /\ out' = {AiMsg(call.socket, "aiError", call.roomId, ErrorMessageEarlier(error))}
  /\ UNCHANGED <<rooms, sids, conn, now, removed, userSockets, lastSubmissionTime,
               clients>>

\* the 15 s timer fires first
aiTimeoutEarlier(call, text) ==
  aiRejectEarlier(call, [name |-> "AbortError", message |-> text])

EarlierTexts == {"x = 2", "**x**\n= 2"}

NextEarlier ==
  \/ \E s \in Sockets : Connect(s)
  \/ \E s \in Sockets, roomId \in RoomIdInputs : joinRoom(s, roomId)
  \/ \E s \in Sockets, data \in AIInputs : processWithAIEarlier(s, data)
  \/ \E call \in pending, text \in EarlierTexts : aiResponseEarlier(call, text)
  \/ \E call \in pending, error \in ErrorInputs : aiRejectEarlier(call, error)
  \/ \E call \in pending, text \in AbortTexts : aiTimeoutEarlier(call, text)

SpecEarlier == Init /\ [][NextEarlier]_vars

\* the messages the handlers choose from
ErrorMessages ==
  {"Invalid request format", "API quota exceeded", "Invalid image format",
   "Image size exceeds 4MB limit", "Request timed out",
   "Failed to process request"}

\* C22: the message of every aiError that is sent is one of the fixed
\* strings (invalid request, quota exceeded, invalid image format, oversized
\* image, timed out, generic failure), never the text of the error that was
\* caught.
AiErrorClassified ==
  \A m \in out : m.ev = "aiError" => m.message \in ErrorMessages


(***************************************************************************)
(* The remaining relay handlers of src/unnamed/part_014, endStroke (lines  *)
(* 89-103) and clearCanvas (lines 309-316), and the handlers on whole       *)
(* payloads.  A handler that reads a field of a payload that was not sent   *)
(* throws a TypeError where no try block is open.                           *)
(***************************************************************************)
\* the node process, on which 'uncaughtException' is emitted
Process == 0

\* an exception that nothing catches: no 'uncaughtException' listener is
\* registered, so node prints the error and exits; the Map, the connections
\* and the awaited calls go with the process
UncaughtException ==
  /\ rooms' = <<>>
  /\ sids' = [s \in Sockets |-> {}]
  /\ conn' = [s \in Sockets |-> "idle"]
  /\ pending' = {}
  /\ out' = {Msg(Process, "uncaughtException", Undefined, NoPages)}
  /\ UNCHANGED <<now, removed, userSockets, lastSubmissionTime,
               clients>>

\* socket.on('endStroke')
endStroke(data) ==
  /\ Connected # {}
  /\ IF data = Undef THEN UncaughtException
     ELSE /\ out' = IF validateRoomId(data.roomId)
                    THEN {Relay(t, "endStroke",
                                [strokeId |-> data.strokeId, page |-> data.page]) :
                            t \in Members(data.roomId)}
                    ELSE {}
          /\ UNCHANGED <<rooms, sids, conn, now, removed, userSockets, aiVars, clients>>

\* clearCanvas that also blanks the stored snapshot of the cleared page
clearCanvasBlank(data) ==
  /\ Connected # {}
  /\ IF data = Undef THEN UncaughtException
     ELSE /\ out' = IF validateRoomId(data.roomId)
                    THEN {Relay(t, "clearCanvas", data) : t \in Members(data.roomId)}
                    ELSE {}
          /\ rooms' = IF /\ data.roomId \in DOMAIN rooms
                         /\ Geq(data.page, 0)
                         /\ Lt(data.page, Len(rooms[data.roomId].pages))
                      THEN [rooms EXCEPT
                              ![data.roomId].pages[data.page.val + 1].imageData = ""]
                      ELSE rooms
          /\ UNCHANGED <<sids, conn, now, removed, userSockets, aiVars, clients>>

\* socket.on('clearCanvas')
clearCanvas(data) ==
  /\ Connected # {}
  /\ IF data = Undef THEN UncaughtException
     ELSE /\ out' = IF validateRoomId(data.roomId)
                    THEN {Relay(t, "clearCanvas", data) : t \in Members(data.roomId)}
                    ELSE {}
          /\ UNCHANGED <<rooms, sids, conn, now, removed, userSockets, aiVars, clients>>

\* the endStroke and clearCanvas payloads of the model
StrokeInputs == [roomId : WideRoomIdInputs, strokeId : {Str("s1")}, page : {Num(0)}]

ClearInputs == [roomId : WideRoomIdInputs, page : {Num(0), Num(1)}]

\* draw payloads: a valid point on the first and on the second page, one
\* with a bad coordinate, one for another room, and no payload
RelayDrawInputs ==
  {NullData, BaseDraw, [BaseDraw EXCEPT !.page = Num(1)],
   [BaseDraw EXCEPT !.x = Num(MaxX + 1)], [BaseDraw EXCEPT !.roomId = "r2"]}

RelayChatInputs ==
  [roomId : WideRoomIdInputs, username : {Str("ann")},
   message : {Undef, Str("hi")}, timestamp : {Undef}]

NextRelay ==
  \/ \E s \in Sockets : Connect(s)
  \/ \E s \in Sockets, roomId \in RoomIdInputs : joinRoom(s, roomId)
  \/ \E roomId \in RoomIdInputs, pageId \in PageIdInputs,
        imageData \in ImageData : addPage(roomId, pageId, imageData)
  \/ \E data \in RelayDrawInputs : draw(data)
  \/ \E data \in StrokeInputs : endStroke(data)
  \/ \E data \in ClearInputs : clearCanvas(data)
  \/ \E msgData \in RelayChatInputs : chatMessage(msgData)
  \/ \E s \in Sockets : disconnect(s)

SpecRelay == Init /\ [][NextRelay]_vars

InvalidJoinRejected ==
  [][\A s \in Sockets, roomId \in RoomIdInputs :
       (roomId \notin RoomIds /\ joinRoom(s, roomId)) =>
         /\ rooms' = rooms
         /\ sids' = sids
         /\ roomId \notin sids'[s]
         /\ \E m \in out' : m.to = s /\ m.ev = "error"
         /\ \A m \in out' : m.to = s /\ m.ev = "error"
    ]_vars

\* C32 witness: the sender has been answered with 'error' while another
\* session is a member of a room of the registry.
InvalidJoinAnswered ==
  \E m \in out :
    /\ m.ev = "error"
    /\ sids[m.to] = {}
    /\ \E t \in Sockets \ {m.to}, roomId \in DOMAIN rooms : t \in Members(roomId)


(***************************************************************************)
(* The handlers on whole payloads (SpecInbound): every event may arrive    *)
(* without a payload (data is undefined).  A room id that was not sent     *)
(* fails validateRoomId as the empty string does.                          *)
(***************************************************************************)
\* a handler that returns without an effect
Dropped ==
  /\ out' = {}
  /\ UNCHANGED <<rooms, sids, conn, now, removed, userSockets, aiVars, clients>>

\* the promise of an async handler rejects and nothing handles it: node
\* exits as for an uncaught exception, or only warns, by its
\* --unhandled-rejections mode
UnhandledRejection == UncaughtException \/ Dropped

\* socket.on('addPage', (data) => ...): data.roomId is read first
addPageEvent(data) ==
  IF data = Undef THEN Connected # {} /\ UncaughtException
  ELSE addPage(data.roomId, data.pageId, data.imageData)

\* socket.on('removePage', (data) => ...)
removePageEvent(data) ==
  IF data = Undef THEN Connected # {} /\ UncaughtException
  ELSE removePage(data.roomId, data.pageId)

\* socket.on('updatePageState', (data) => ...)
updatePageStateEvent(data) ==
  IF data = Undef THEN Connected # {} /\ UncaughtException
  ELSE updatePageState(data.roomId, data.pageId, data.imageData)

\* socket.on('chatMessage', (msgData) => ...): !msgData?.message returns
chatMessageEvent(msgData) ==
  IF msgData = Undef THEN Connected # {} /\ Dropped
  ELSE chatMessage(msgData)

\* socket.on('processWithAI', async (data) => ...): !data?.image holds and
\* the aiError payload reads data.roomId
processWithAIEvent(s, data) ==
  IF data = Undef THEN conn[s] = "open" /\ UnhandledRejection
  ELSE processWithAI(s, data)

PageData ==
  {Undef} \cup [roomId : RoomIdInputs, pageId : PageIdInputs, imageData : ImageData]

RemoveData == {Undef} \cup [roomId : RoomIdInputs, pageId : PageIdInputs]

InboundAIInputs ==
  {Undef, [roomId |-> "", image |-> NoImage]} \cup CleanInputs

NextInbound ==
  \/ \E s \in Sockets : Connect(s)
  \/ \E s \in Sockets, roomId \in RoomIdInputs : joinRoom(s, roomId)
  \/ \E data \in PageData : addPageEvent(data)
  \/ \E data \in RemoveData : removePageEvent(data)
  \/ \E s \in Sockets, roomId \in RoomIdInputs : requestInitialState(s, roomId)
  \/ \E data \in PageData : updatePageStateEvent(data)
  \/ \E data \in RelayDrawInputs : draw(data)
  \/ \E data \in StrokeInputs \cup {Undef} : endStroke(data)
  \/ \E data \in ClearInputs \cup {Undef} : clearCanvas(data)
  \/ \E msgData \in RelayChatInputs \cup {Undef} : chatMessageEvent(msgData)
  \/ \E s \in Sockets, data \in InboundAIInputs : processWithAIEvent(s, data)
  \/ \E call \in pending, text \in ResponseTexts : aiResponse(call, text)
  \/ \E s \in Sockets : disconnect(s)

SpecInbound == Init /\ [][NextInbound]_vars

\* C23: whatever event arrives with whatever payload, a missing one
\* included, no handler ends in an uncaught exception: the process stays up
\* (and with it the registry).
NoUncaughtException == \A m \in out : m.ev # "uncaughtException"


(***************************************************************************)
(* The Whiteboard clients of src/client2/src/Room.js with the page-keeping *)
(* server (SpecPages).  clients[c].pages is the component's pages state,   *)
(* clients[c].down the events the server has emitted to c that c has not   *)
(* handled yet.  A client's emit is handled by the server in the same      *)
(* step; what the server emits in return stays in flight until the client  *)
(* receives it.                                                            *)
(***************************************************************************)
\* the events one connection may have in flight
MaxInFlight == 2

\* io.to(...).emit / socket.emit: each emitted event joins the queue of the
\* connection it goes to, when a Whiteboard listens there
Deliver(cl, msgs) ==
  [t \in Sockets |->
     IF cl[t].mounted /\ \E m \in msgs : m.to = t
     THEN [cl[t] EXCEPT !.down = Append(@, CHOOSE m \in msgs : m.to = t)]
     ELSE cl[t]]

\* room for one more event on the way to every member of the room
CanEmit(roomId) == \A t \in Members(roomId) : Len(clients[t].down) < MaxInFlight

\* the Whiteboard of a joined connection mounts: useState gives it one
\* local page, useEffect emits requestInitialState
mount(c, roomId) ==
  /\ roomId \in sids[c]
  /\ ~clients[c].mounted
  /\ requestInitialStateHandler(c, roomId)
  /\ clients' = Deliver([clients EXCEPT
                           ![c].mounted = TRUE,
                           ![c].pages = <<[id |-> DateNow, imageData |-> ""]>>],
                        out')

\* Whiteboard.addPage on the page pageId of the local list
clientAddPage(c, roomId, pageId, imageData) ==
  /\ clients[c].mounted
  /\ roomId \in sids[c]
  /\ pageId \in PageIds(clients[c].pages)
  /\ CanEmit(roomId)
  /\ addPageHandler(roomId, pageId, imageData)
  /\ clients' = Deliver(clients, out')

\* Whiteboard.removePage(pageId), offered by the tab of a local page:
\* if (pages.length === 1) return
clientRemovePage(c, roomId, pageId) ==
  /\ clients[c].mounted
  /\ roomId \in sids[c]
  /\ pageId \in PageIds(clients[c].pages)
  /\ Len(clients[c].pages) # 1
  /\ CanEmit(roomId)
  /\ removePageHandler(roomId, pageId)
  /\ clients' = Deliver(clients, out')
  /\ UNCHANGED removed

\* receive taking the page list emitted last ahead of the earlier ones
receiveLast(c) ==
  /\ clients[c].down # <<>>
  /\ clients[c].down[Len(clients[c].down)].ev \in {"initialState", "fullPageUpdate"}
  /\ clients' = [clients EXCEPT
                   ![c].pages = clients[c].down[Len(clients[c].down)].pages,
                   ![c].down = SubSeq(@, 1, Len(@) - 1)]
  /\ UNCHANGED <<rooms, sids, conn, now, out, removed, userSockets, aiVars>>

\* socket.on('initialState') and socket.on('fullPageUpdate'):
\* setPages(serverPages)
receive(c) ==
  /\ clients[c].down # <<>>
  /\ Head(clients[c].down).ev \in {"initialState", "fullPageUpdate"}
  /\ clients' = [clients EXCEPT ![c].pages = Head(clients[c].down).pages,
                                ![c].down = Tail(@)]
  /\ UNCHANGED <<rooms, sids, conn, now, out, removed, userSockets, aiVars>>

\* the page ids a client can hold: the server's and its own first one
ClientPageIds == PageIdInputs \cup {Epoch + n : n \in 1..MaxClock}

NextPages ==
  \/ \E s \in Sockets : Connect(s)
  \/ Tick
  \/ \E s \in Sockets, roomId \in RoomIds : joinRoom(s, roomId)
  \/ \E c \in Sockets, roomId \in RoomIds : mount(c, roomId)
  \/ \E c \in Sockets, roomId \in RoomIds, pageId \in ClientPageIds,
        imageData \in ImageData : clientAddPage(c, roomId, pageId, imageData)
  \/ \E c \in Sockets, roomId \in RoomIds, pageId \in ClientPageIds :
        clientRemovePage(c, roomId, pageId)
  \/ \E c \in Sockets : receive(c)

SpecPages == Init /\ [][NextPages]_vars

\* C29: when every removePage comes from a client that applies the guard,
\* no step takes a room's page list (of distinct ids) from one or more
\* pages to none, however the clients' events interleave.
GuardedRemovalKeepsPage ==
  [][\A r \in DOMAIN rooms :
       ( /\ rooms[r].pages # <<>>
         /\ Cardinality(PageIds(rooms[r].pages)) = Len(rooms[r].pages) ) =>
         rooms'[r].pages # <<>>
    ]_vars


(***************************************************************************)
(* The draw relay between Whiteboard clients (SpecOrder).  A connection    *)
(* is one websocket (transports: ['websocket'], part_014 line 61): the     *)
(* events a client emits reach the server's handlers in the order of       *)
(* emission (clients[c].up), and the events the server emits to a          *)
(* connection reach the client in the order of the emits (clients[c].down). *)
(* clients[c].got is what handleDraw has drawn at c, in order.             *)
(***************************************************************************)
\* the points the clients draw in all
MaxEvents == 3

RECURSIVE Emitted(_)
Emitted(cs) ==
  IF cs = {} THEN 0
  ELSE LET c == CHOOSE c \in cs : TRUE
       IN clients[c].emitted + Emitted(cs \ {c})

\* the k-th point of the stroke client c draws: socket?.emit('draw', {...})
StrokePoint(c, roomId, k) ==
  [roomId |-> roomId, senderId |-> c, x |-> Num(k), y |-> Num(0),
   page |-> Num(0), isErasing |-> Bool(FALSE),
   compositeOperation |-> Str("source-over"), color |-> Str("red")]

\* Whiteboard.draw: the next point of the stroke is emitted
emitDraw(c, roomId) ==
  /\ clients[c].mounted
  /\ roomId \in sids[c]
  /\ Emitted(Sockets) < MaxEvents
  /\ Len(clients[c].up) < MaxInFlight
  /\ clients' = [clients EXCEPT
                   ![c].emitted = @ + 1,
                   ![c].up = Append(@, StrokePoint(c, roomId, clients[c].emitted + 1))]
  /\ UNCHANGED <<rooms, sids, conn, now, out, removed, userSockets, aiVars>>

\* the server handles the last event a connection has in flight
serverDrawLast(c) ==
  /\ clients[c].up # <<>>
  /\ LET data == clients[c].up[Len(clients[c].up)]
     IN /\ CanEmit(data.roomId)
        /\ drawHandler(data)
        /\ clients' = Deliver([clients EXCEPT
                                 ![c].up = SubSeq(@, 1, Len(@) - 1)], out')

\* the server handles the next event of a connection: socket.on('draw')
\* runs to its end, emits included, before any other event is handled
serverDraw(c) ==
  /\ clients[c].up # <<>>
  /\ LET data == Head(clients[c].up)
     IN /\ CanEmit(data.roomId)
        /\ drawHandler(data)
        /\ clients' = Deliver([clients EXCEPT ![c].up = Tail(@)], out')

\* socket.on('draw', handleDraw): a point of the client's own is skipped
handleDraw(c) ==
  /\ clients[c].down # <<>>
  /\ Head(clients[c].down).ev = "draw"
  /\ LET data == Head(clients[c].down).data
     IN clients' = [clients EXCEPT
                      ![c].got = IF data.senderId = c THEN @ ELSE Append(@, data),
                      ![c].down = Tail(@)]
  /\ UNCHANGED <<rooms, sids, conn, now, out, removed, userSockets, aiVars>>

NextOrder ==
  \/ \E s \in Sockets : Connect(s)
  \/ \E s \in Sockets, roomId \in RoomIds : joinRoom(s, roomId)
  \/ \E c \in Sockets, roomId \in RoomIds : mount(c, roomId)
  \/ \E c \in Sockets : receive(c)
  \/ \E c \in Sockets, roomId \in RoomIds : emitDraw(c, roomId)
  \/ \E c \in Sockets : serverDraw(c)
  \/ \E c \in Sockets : handleDraw(c)

SpecOrder == Init /\ [][NextOrder]_vars

UnjoinedInputs ==
  {[roomId |-> "r2",
    image |-> [truthy |-> TRUE, parts |-> 2, len |-> 8, pad |-> 1]]}

NextInFlight ==
  \/ \E s \in Sockets : Connect(s)
  \/ \E s \in Sockets, roomId \in RoomIds : joinRoom(s, roomId)
  \/ \E c \in Sockets, roomId \in RoomIds, drawn \in DrawnInputs :
        processAISubmission(c, roomId, drawn)
  \/ \E s \in Sockets, data \in UnjoinedInputs : processWithAI(s, data)
  \/ \E call \in pending, text \in ResponseTexts : aiResponse(call, text)
  \/ \E s \in Sockets : disconnect(s)

SpecInFlight == Init /\ [][NextInFlight]_vars

\* C27: when a call resolves after the connection that requested it has
\* closed, the aiResponse still goes to exactly the sessions that are joined
\* to the room at that moment (to nobody when there are none or the room is
\* not in the registry), and the registry and the room memberships are the
\* same after it: no room is created and none changes.
InFlightOutlivesRequester ==
  [][\A call \in pending, text \in ResponseTexts :
       (conn[call.socket] # "open" /\ aiResponse(call, text)) =>
         /\ out' = {AiMsg(t, "aiResponse", call.roomId, text) :
                      t \in JoinedSessions(call.roomId)}
         /\ rooms' = rooms
         /\ sids' = sids
    ]_vars

\* C27 witness: the first connection has submitted and closed, the second
\* has never submitted, and the second alone has been sent the aiResponse.
OrphanedCallAnswered ==
  /\ conn[1] = "idle"
  /\ lastSubmissionTime[1] # 0
  /\ lastSubmissionTime[2] = 0
  /\ out = {AiMsg(2, "aiResponse", "r1", "x = 2")}

(***************************************************************************)
(* The page lists of the Whiteboard clients against the server's           *)
(* (SpecConverge).  Every event a client emits travels on its connection   *)
(* (clients[c].up) and is handled by the server in the order of emission;  *)
(* the page lists the server emits travel back on clients[c].down.  The    *)
(* connections stay open: socket.on('disconnect') neither changes a page   *)
(* list nor emits one.                                                     *)
(***************************************************************************)
\* an event a client has emitted
Event(ev, roomId, pageId, imageData) ==
  [ev |-> ev, roomId |-> roomId, pageId |-> pageId, imageData |-> imageData]

RECURSIVE CountEvents(_, _)
\* the events named in evs among the events in flight to the server from cs
CountEvents(cs, evs) ==
  IF cs = {} THEN 0
  ELSE LET c == CHOOSE c \in cs : TRUE
       IN Len(SelectSeq(clients[c].up, LAMBDA e : e.ev \in evs))
          + CountEvents(cs \ {c}, evs)

\* the names of the events of the clients
EventNames == {"joinRoom", "requestInitialState", "addPage", "removePage"}

RECURSIVE CountLists(_)
\* the page lists in flight to the clients cs
CountLists(cs) ==
  IF cs = {} THEN 0
  ELSE LET c == CHOOSE c \in cs : TRUE
       IN Len(clients[c].down) + CountLists(cs \ {c})

\* the events and page lists the connections may have in flight in all
MaxPending == 2

\* the events in flight to the server and the page lists in flight to the
\* clients
InFlight == CountEvents(Sockets, EventNames) + CountLists(Sockets)

\* Room mounts on a fresh connection and emits joinRoom; its Whiteboard
\* mounts with one local page and emits requestInitialState
open(c, roomId) ==
  /\ conn[c] = "open"
  /\ ~clients[c].mounted
  /\ sids[c] = {}
  /\ (IF roomId \in DOMAIN rooms THEN rooms[roomId].participants ELSE 0)
       + CountEvents(Sockets, {"joinRoom"}) < MaxCount
  /\ InFlight + 2 <= MaxPending
  /\ clients' = [clients EXCEPT
                   ![c].mounted = TRUE,
                   ![c].pages = <<[id |-> DateNow, imageData |-> ""]>>,
                   ![c].up = <<Event("joinRoom", roomId, Undefined, ""),
                               Event("requestInitialState", roomId, Undefined, "")>>]
  /\ UNCHANGED <<rooms, sids, conn, now, out, removed, userSockets, aiVars>>

\* Whiteboard.addPage: pageId is the id of the active local page
emitAddPage(c, roomId, pageId, imageData) ==
  /\ clients[c].mounted
  /\ pageId \in PageIds(clients[c].pages)
  /\ InFlight < MaxPending
  /\ Len(PagesOf(rooms, roomId)) + CountEvents(Sockets, {"addPage"}) < MaxPages
  /\ clients' = [clients EXCEPT
                   ![c].up = Append(@, Event("addPage", roomId, pageId, imageData))]
  /\ UNCHANGED <<rooms, sids, conn, now, out, removed, userSockets, aiVars>>

\* Whiteboard.removePage(pageId): if (pages.length === 1) return
emitRemovePage(c, roomId, pageId) ==
  /\ clients[c].mounted
  /\ pageId \in PageIds(clients[c].pages)
  /\ Len(clients[c].pages) # 1
  /\ InFlight < MaxPending
  /\ clients' = [clients EXCEPT
                   ![c].up = Append(@, Event("removePage", roomId, pageId, ""))]
  /\ UNCHANGED <<rooms, sids, conn, now, out, removed, userSockets, aiVars>>

\* the next event of connection c is named ev and there is room for what
\* its handler emits
NextEvent(c, ev) ==
  /\ clients[c].up # <<>>
  /\ Head(clients[c].up).ev = ev
  /\ ev \in {"addPage", "removePage"} =>
       InFlight - 1 + Cardinality({t \in Members(Head(clients[c].up).roomId) :
                                     clients[t].mounted}) <= MaxPending

\* the server handles a joinRoom; the Whiteboard has no listener for
\* 'roomStatus'
serveJoinRoom(c) ==
  /\ NextEvent(c, "joinRoom")
  /\ joinRoomHandler(c, Head(clients[c].up).roomId)
  /\ clients' = [clients EXCEPT ![c].up = Tail(@)]

serveRequestInitialState(c) ==
  /\ NextEvent(c, "requestInitialState")
  /\ requestInitialStateHandler(c, Head(clients[c].up).roomId)
  /\ clients' = Deliver([clients EXCEPT ![c].up = Tail(@)], out')

serveAddPage(c) ==
  /\ NextEvent(c, "addPage")
  /\ LET e == Head(clients[c].up)
     IN addPageHandler(e.roomId, e.pageId, e.imageData)
  /\ clients' = Deliver([clients EXCEPT ![c].up = Tail(@)], out')

serveRemovePage(c) ==
  /\ NextEvent(c, "removePage")
  /\ LET e == Head(clients[c].up)
     IN removePageHandler(e.roomId, e.pageId)
  /\ clients' = Deliver([clients EXCEPT ![c].up = Tail(@)], out')
  /\ UNCHANGED removed

NextConverge ==
  \/ \E s \in Sockets : Connect(s)
  \/ Tick
  \/ \E c \in Sockets, roomId \in RoomIds : open(c, roomId)
  \/ \E c \in Sockets, roomId \in RoomIds, pageId \in ClientPageIds :
        emitAddPage(c, roomId, pageId, "a")
  \/ \E c \in Sockets, roomId \in RoomIds, pageId \in ClientPageIds :
        emitRemovePage(c, roomId, pageId)
  \/ \E c \in Sockets : serveJoinRoom(c)
  \/ \E c \in Sockets : serveRequestInitialState(c)
  \/ \E c \in Sockets : serveAddPage(c)
  \/ \E c \in Sockets : serveRemovePage(c)
  \/ \E c \in Sockets : receive(c)

SpecConverge == Init /\ [][NextConverge]_vars

\* nothing is in flight: every emitted event has been handled by the
\* server and every page list the server has emitted has been received
Quiet == \A c \in Sockets : clients[c].up = <<>> /\ clients[c].down = <<>>

Emit(ev, data) == [ev |-> ev, data |-> data]

\* the k-th point client c draws, on the page with index i of its list
Point(c, roomId, k, i, handGesture) ==
  [roomId |-> roomId, senderId |-> c, x |-> Num(k), y |-> Num(0),
   page |-> Num(i), isErasing |-> Undef,
   compositeOperation |-> Str("source-over"), color |-> Str("red"),
   handGesture |-> Bool(handGesture)]

\* canvasRefs.current[i].toDataURL() at client c: the image the page was
\* loaded with and what has been drawn on the canvas since
ToDataURL(cl, c, i) ==
  IF \E k \in 1..Len(cl[c].got) : cl[c].got[k].id = cl[c].pages[i + 1].id
  THEN "a"
  ELSE cl[c].pages[i + 1].imageData

\* ctx.stroke() on the canvas of the page with the id
Drawn(data, id) == [data |-> data, id |-> id]

\* Whiteboard.draw: the mouse draws on the canvas of the active page and
\* the point is emitted
mouseDraw(c, roomId, activePage) ==
  /\ clients[c].mounted
  /\ roomId \in sids[c]
  /\ activePage + 1 \in 1..Len(clients[c].pages)
  /\ Emitted(Sockets) < MaxEvents
  /\ Len(clients[c].up) < MaxInFlight
  /\ LET data == Point(c, roomId, clients[c].emitted + 1, activePage, FALSE)
     IN clients' = [clients EXCEPT
                      ![c].emitted = @ + 1,
                      ![c].got = Append(@, Drawn(data, clients[c].pages[activePage + 1].id)),
                      ![c].up = Append(@, Emit("draw", data))]
  /\ UNCHANGED <<rooms, sids, conn, now, out, removed, userSockets, aiVars>>

\* HandGesture: the finger draws on the overlay and the point is emitted
\* with handGesture: true
gestureDraw(c, roomId, activePage) ==
  /\ clients[c].mounted
  /\ roomId \in sids[c]
  /\ activePage + 1 \in 1..Len(clients[c].pages)
  /\ Emitted(Sockets) < MaxEvents
  /\ Len(clients[c].up) < MaxInFlight
  /\ LET data == Point(c, roomId, clients[c].emitted + 1, activePage, TRUE)
     IN clients' = [clients EXCEPT
                      ![c].emitted = @ + 1,
                      ![c].up = Append(@, Emit("draw", data))]
  /\ UNCHANGED <<rooms, sids, conn, now, out, removed, userSockets, aiVars>>

\* the server handles the draw that connection c has emitted next
serveDraw(c) ==
  /\ clients[c].up # <<>>
  /\ Head(clients[c].up).ev = "draw"
  /\ LET data == Head(clients[c].up).data
     IN /\ CanEmit(data.roomId)
        /\ drawHandler(data)
        /\ clients' = Deliver([clients EXCEPT ![c].up = Tail(@)], out')

\* the server handles the updatePageState that connection c has emitted next
serveUpdatePageState(c) ==
  /\ clients[c].up # <<>>
  /\ Head(clients[c].up).ev = "updatePageState"
  /\ LET data == Head(clients[c].up).data
     IN updatePageStateHandler(data.roomId, data.pageId, data.imageData)
  /\ clients' = [clients EXCEPT ![c].up = Tail(@)]

\* socket.on('draw', handleDraw) of the Whiteboard: a mouse point of the
\* client's own is skipped; any other point is drawn on the canvas of the
\* page with its index, the image of the canvas is kept in pages and
\* emitted as updatePageState
applyDraw(c) ==
  /\ clients[c].down # <<>>
  /\ Head(clients[c].down).ev = "draw"
  /\ Len(clients[c].up) < MaxInFlight
  /\ LET data == Head(clients[c].down).data
         i == data.page.val
         drawn == [clients EXCEPT
                     ![c].got = Append(@, Drawn(data, clients[c].pages[i + 1].id)),
                     ![c].down = Tail(@)]
     IN IF \/ data.senderId = c /\ ~Truthy(data.handGesture)
           \/ i + 1 \notin 1..Len(clients[c].pages)
        THEN clients' = [clients EXCEPT ![c].down = Tail(@)]
        ELSE clients' = [drawn EXCEPT
               ![c].pages[i + 1].imageData = ToDataURL(drawn, c, i),
               ![c].up = Append(@, Emit("updatePageState",
                                        [roomId |-> data.roomId,
                                         pageId |-> clients[c].pages[i + 1].id,
                                         imageData |-> ToDataURL(drawn, c, i)]))]
  /\ UNCHANGED <<rooms, sids, conn, now, out, removed, userSockets, aiVars>>

\* the indices of the pages of a list
PageIndices == 0..(MaxPages - 1)

NextStrokes ==
  \/ \E s \in Sockets : Connect(s)
  \/ \E s \in Sockets, roomId \in RoomIds : joinRoom(s, roomId)
  \/ \E c \in Sockets, roomId \in RoomIds : mount(c, roomId)
  \/ \E c \in Sockets : receive(c)
  \/ \E c \in Sockets, roomId \in RoomIds, activePage \in PageIndices :
        mouseDraw(c, roomId, activePage)
  \/ \E c \in Sockets, roomId \in RoomIds, activePage \in PageIndices :
        gestureDraw(c, roomId, activePage)
  \/ \E c \in Sockets : serveDraw(c)
  \/ \E c \in Sockets : serveUpdatePageState(c)
  \/ \E c \in Sockets : applyDraw(c)

SpecStrokes == Init /\ [][NextStrokes]_vars

\* C34: once the points the members of a room have drawn are relayed and
\* nothing is in flight any more, the snapshot the server stores for the
\* page (what initialState gives a session joining afterwards) shows the
\* stroke, also when the drawer is the only member and draws with the mouse.
StrokesStored ==
  Quiet =>
    \A r \in DOMAIN rooms : \A c \in Members(r) :
      (clients[c].mounted /\ clients[c].emitted > 0) =>
        rooms[r].pages[1].imageData = "a"

(***************************************************************************)
(* Drawing while pages are added and removed (SpecIndex): the clients of   *)
(* SpecStrokes, which may also add and remove pages; one point is drawn,   *)
(* on any page of the drawer's list.                                       *)
(***************************************************************************)
NextIndex ==
  \/ \E s \in Sockets : Connect(s)
  \/ Tick
  \/ \E s \in Sockets, roomId \in RoomIds : joinRoom(s, roomId)
  \/ \E c \in Sockets, roomId \in RoomIds : mount(c, roomId)
  \/ \E c \in Sockets : receive(c)
  \/ \E c \in Sockets, roomId \in RoomIds, pageId \in ClientPageIds :
        clientAddPage(c, roomId, pageId, "a")
  \/ \E c \in Sockets, roomId \in RoomIds, pageId \in ClientPageIds :
        clientRemovePage(c, roomId, pageId)
  \/ \E c \in Sockets, roomId \in RoomIds, activePage \in PageIndices :
        Emitted(Sockets) = 0 /\ mouseDraw(c, roomId, activePage)
  \/ \E c \in Sockets : serveDraw(c)
  \/ \E c \in Sockets : serveUpdatePageState(c)
  \/ \E c \in Sockets : applyDraw(c)

SpecIndex == Init /\ [][NextIndex]_vars

\* C35: a point a client has drawn on the page it views (a page of the
\* server's list, not the local page a Whiteboard starts with) is drawn by
\* every client that receives it on the page with the same id, whatever
\* addPage or removePage is handled between the emit and the reception.
DrawnOnSamePage ==
  \A c \in Sockets : \A d \in Sockets \ {c} :
    \A k \in 1..Len(clients[c].got) : \A l \in 1..Len(clients[d].got) :
      ( /\ clients[c].got[k].data.senderId = c
        /\ clients[c].got[k].id \in PageIdInputs
        /\ clients[d].got[l].data.senderId = c
        /\ clients[d].got[l].data.x = clients[c].got[k].data.x ) =>
        clients[d].got[l].id = clients[c].got[k].id

(***************************************************************************)
(* Events of sessions that have not joined the room they name              *)
(* (SpecIsolation).  No handler of the page-keeping server looks at        *)
(* socket.rooms: the sender s of an event only has to be connected.        *)
(***************************************************************************)
\* session s is connected and has not joined roomId
Outside(s, roomId) == conn[s] = "open" /\ roomId \notin sids[s]

\* the draw, endStroke, clearCanvas and chatMessage payloads naming roomId
DrawInputsFor(roomId) == {data \in RelayDrawInputs \ {NullData} : data.roomId = roomId}

StrokeInputsFor(roomId) == {data \in StrokeInputs : data.roomId = roomId}

ClearInputsFor(roomId) == {data \in ClearInputs : data.roomId = roomId}

ChatInputsFor(roomId) == {msgData \in RelayChatInputs : msgData.roomId = roomId}

NextIsolation ==
  \/ \E s \in Sockets : Connect(s)
  \/ Tick
  \/ \E s \in Sockets, roomId \in RoomIds : joinRoom(s, roomId)
  \/ \E s \in Sockets, roomId \in RoomIds, pageId \in PageIdInputs,
        imageData \in ImageData :
        Outside(s, roomId) /\ addPage(roomId, pageId, imageData)
  \/ \E s \in Sockets, roomId \in RoomIds, pageId \in PageIdInputs :
        Outside(s, roomId) /\ removePage(roomId, pageId)
  \/ \E s \in Sockets, roomId \in RoomIds, pageId \in PageIdInputs,
        imageData \in ImageData :
        Outside(s, roomId) /\ updatePageState(roomId, pageId, imageData)
  \/ \E s \in Sockets, roomId \in RoomIds :
        Outside(s, roomId) /\ requestInitialState(s, roomId)
  \/ \E s \in Sockets, roomId \in RoomIds : \E data \in DrawInputsFor(roomId) :
        Outside(s, roomId) /\ draw(data)
  \/ \E s \in Sockets, roomId \in RoomIds : \E data \in StrokeInputsFor(roomId) :
        Outside(s, roomId) /\ endStroke(data)
  \/ \E s \in Sockets, roomId \in RoomIds : \E data \in ClearInputsFor(roomId) :
        Outside(s, roomId) /\ clearCanvas(data)
  \/ \E s \in Sockets, roomId \in RoomIds : \E msgData \in ChatInputsFor(roomId) :
        Outside(s, roomId) /\ chatMessage(msgData)

SpecIsolation == Init /\ [][NextIsolation]_vars

\* an event naming roomId is handled
AddPageNaming(roomId) ==
  \E pageId \in PageIdInputs, imageData \in ImageData :
    addPage(roomId, pageId, imageData)

RemovePageNaming(roomId) == \E pageId \in PageIdInputs : removePage(roomId, pageId)

UpdatePageStateNaming(roomId) ==
  \E pageId \in PageIdInputs, imageData \in ImageData :
    updatePageState(roomId, pageId, imageData)

RelayNaming(roomId) ==
  \/ \E data \in DrawInputsFor(roomId) : draw(data)
  \/ \E data \in StrokeInputsFor(roomId) : endStroke(data)
  \/ \E data \in ClearInputsFor(roomId) : clearCanvas(data)
  \/ \E msgData \in ChatInputsFor(roomId) : chatMessage(msgData)

\* C36: an event naming a room, sent by a session that has not joined the
\* room, leaves the room's pages as they were and sends the members
\* nothing, and a requestInitialState of such a session is not answered
\* with the room's pages.
RoomIsolation ==
  [][\A s \in Sockets, roomId \in RoomIds :
       ( /\ Outside(s, roomId)
         /\ roomId \in DOMAIN rooms
         /\ \/ AddPageNaming(roomId)
            \/ RemovePageNaming(roomId)
            \/ UpdatePageStateNaming(roomId)
            \/ RelayNaming(roomId)
            \/ requestInitialState(s, roomId) ) =>
         /\ PagesOf(rooms', roomId) = PagesOf(rooms, roomId)
         /\ \A m \in out' :
              /\ m.to \notin Members(roomId)
              /\ m.ev = "initialState" => m.pages = <<>>
    ]_vars

(***************************************************************************)
(* The outcomes of the processWithAI requests (SpecOutcome): the events    *)
(* arrive with or without a payload, and an awaited generateContent call   *)
(* resolves, rejects or is aborted by the timer.  A call leaves pending on *)
(* the paths that run clearTimeout(timeoutId): after the await and in the  *)
(* catch block.                                                            *)
(***************************************************************************)
OutcomeInputs == {Undef} \cup AIInputs

NextOutcome ==
  \/ \E s \in Sockets : Connect(s)
  \/ \E s \in Sockets, roomId \in RoomIdInputs : joinRoom(s, roomId)
  \/ \E s \in Sockets, data \in OutcomeInputs : processWithAIEvent(s, data)
  \/ \E call \in pending, text \in ResponseTexts : aiResponse(call, text)
  \/ \E call \in pending, error \in ErrorInputs : aiReject(call, error)
  \/ \E call \in pending, text \in AbortTexts : aiTimeout(call, text)

SpecOutcome == Init /\ [][NextOutcome]_vars

\* the events of out are outcomes of one kind for the room
Outcome(msgs, ev, roomId) ==
  /\ msgs # {}
  /\ \A m \in msgs : m.ev = ev /\ m.roomId = roomId

\* C37: every processWithAI request ends in one outcome, an aiResponse or
\* an aiError and not both: the handler either answers at once with one
\* aiError and awaits no call, or awaits one call and emits nothing until
\* the call resolves (one aiResponse), rejects or is aborted (one aiError).
OneOutcome ==
  [][/\ \A s \in Sockets, data \in OutcomeInputs :
          (conn[s] = "open" /\ processWithAIEvent(s, data)) =>
            /\ data # Undef
            /\ \/ /\ pending' = pending
                  /\ out' = {AiMsg(s, "aiError", data.roomId, m.message) : m \in out'}
                  /\ Cardinality(out') = 1
               \/ /\ Call(s, data.roomId) \notin pending
                  /\ pending' = pending \cup {Call(s, data.roomId)}
                  /\ out' = {}
     /\ \A call \in pending :
          ( /\ conn[call.socket] = "open"
            /\ call.socket \in Members(call.roomId)
            /\ \/ \E text \in ResponseTexts : aiResponse(call, text)
               \/ \E error \in ErrorInputs : aiReject(call, error)
               \/ \E text \in AbortTexts : aiTimeout(call, text) ) =>
            /\ pending' = pending \ {call}
            /\ \/ Outcome(out', "aiResponse", call.roomId)
               \/ Outcome(out', "aiError", call.roomId) /\ Cardinality(out') = 1
    ]_vars

(***************************************************************************)
(* A dropped connection of a Room client (SpecReconnect).  The names of    *)
(* Sockets stand for the clients' transports: after drop(c) the component  *)
(* of c is still mounted, and the next Connect(c) is the automatic         *)
(* reconnection, which gives c a new session that has joined no room.      *)
(* Room's 'connect' listener sets state and emits nothing.                 *)
(***************************************************************************)
\* the connection of client c, a member of its room, drops: the server
\* runs socket.on('disconnect') for its session and what was in flight on
\* the connection is lost
drop(c) ==
  /\ clients[c].mounted
  /\ sids[c] # {}
  /\ disconnectHandler(c)
  /\ clients' = [clients EXCEPT ![c].up = <<>>, ![c].down = <<>>]

NextReconnect ==
  \/ \E s \in Sockets : Connect(s)
  \/ Tick
  \/ \E c \in Sockets, roomId \in RoomIds : open(c, roomId)
  \/ \E c \in Sockets, roomId \in RoomIds, pageId \in ClientPageIds :
        emitAddPage(c, roomId, pageId, "a")
  \/ \E c \in Sockets : serveJoinRoom(c)
  \/ \E c \in Sockets : serveRequestInitialState(c)
  \/ \E c \in Sockets : serveAddPage(c)
  \/ \E c \in Sockets : receive(c)
  \/ \E c \in Sockets : drop(c)

SpecReconnect == Init /\ [][NextReconnect]_vars

\* C38: a client whose connection is up (again) and whose emitted events
\* have all been handled is a member of its room: the server has had a
\* joinRoom from its present session.
MemberAgain ==
  \A c \in Sockets :
    (clients[c].mounted /\ conn[c] = "open" /\ clients[c].up = <<>>) =>
      \E roomId \in RoomIds : c \in Members(roomId)

=============================================================================
